---------------------------- MODULE Spec2Model ----------------------------
(***************************************************************************)
(* Window-film recommendation and pricing tools: the catalog normaliser,   *)
(* the relevance scorer with its broaden-when-starved pass, the product    *)
(* expander / brand diversifier, and the two pricing paths.                *)
(*                                                                         *)
(* Numbers.  Scores are held in units of 1/500 (the code divides the IR    *)
(* and UV percentages by 500, so every weight is a whole number of units). *)
(* A score itself is the IEEE double the code computes, see Dbl below.     *)
(* Money is held in cents, areas in ten-thousandths of a square foot.  A   *)
(* field the code finds undefined is NoNum (numbers), "" (strings) or <<>> *)
(* (lists).                                                                *)
(***************************************************************************)
EXTENDS Integers, Sequences, FiniteSets, TLC

VARIABLES
    productsData,  \* products.json: the brand blocks read at module load
    films,         \* recommendFilms.ts `films`: the flattened catalog
    filmsData,     \* films.json: the document the pricing tool reads
    req,           \* the call being answered: [op, ...arguments]
    resp,          \* what that call returned: [threw, out]
    inflight,      \* the submit_intake_panel calls suspended at an await
    passes,        \* the scoring passes the last scoreFilms call executed
    invoked,       \* the core functions the call has run, in order
    ui             \* the preview page: the React state of App and its strip

vars == <<productsData, films, filmsData, req, resp, inflight, passes, invoked, ui>>

----------------------------------------------------------------------------
(* Bounds of the model *)

MaxBlocks == 6      \* brand blocks taken from the block universe
MaxPerBlock == 2    \* products kept per brand block
MaxSkus == 2        \* identifiers in one pricing request (the schema allows 3)

----------------------------------------------------------------------------
(* Generic helpers *)

NoNum == -1

Range(s) == {s[i] : i \in 1..Len(s)}

Contains(s, x) == \E i \in 1..Len(s) : s[i] = x

Min(a, b) == IF a < b THEN a ELSE b

Abs(a) == IF a < 0 THEN -a ELSE a

Take(s, n) == SubSeq(s, 1, Min(n, Len(s)))

(* the sequence s with every element evaluated once *)
Seq1(s) == SubSeq(s, 1, Len(s))

(* Lexicographic order on equally long tuples of integers. *)
RECURSIVE LexLess(_, _)
LexLess(a, b) ==
    IF a = <<>> THEN FALSE
    ELSE IF Head(a) # Head(b) THEN Head(a) < Head(b)
         ELSE LexLess(Tail(a), Tail(b))

(* Array.prototype.sort is stable.  keys[i] is the tuple the comparator    *)
(* orders element i by (smaller first); the result lists the indices in    *)
(* sorted order, elements with equal keys keeping their relative order.    *)
RECURSIVE InsertIdx(_, _, _)
InsertIdx(i, order, keys) ==
    IF order = <<>> THEN <<i>>
    ELSE IF LexLess(keys[i], keys[Head(order)]) THEN <<i>> \o order
         ELSE <<Head(order)>> \o InsertIdx(i, Tail(order), keys)

RECURSIVE SortIdx(_, _)
SortIdx(n, keys) ==
    IF n = 0 THEN <<>> ELSE InsertIdx(n, SortIdx(n - 1, keys), keys)

StableSortBy(s, keys) ==
    LET ks == Seq1(keys)
        order == SortIdx(Len(s), ks)
    IN Seq1([k \in 1..Len(s) |-> s[order[k]]])

----------------------------------------------------------------------------
(* JavaScript numbers.  The scores are sums of doubles, and the code sorts *)
(* and thresholds on the sums, so 0.5 + 0.2 + 0.1 (0.7999999999999999) is  *)
(* below 0.8.  A double is held as [u, r]: its value is                    *)
(* u/500 + r/(125 * 2^62), u the exact decimal amount in units and r the   *)
(* rounding error accumulated so far.  Sums stay below 32.                 *)

(* 2^n modulo 125, for n below 63: 2^7 = 128 is 3 modulo 125 *)
Pow2Mod125(n) == (3^(n \div 7) * 2^(n % 7)) % 125

(* the number of binary digits of n, for 1 <= n < 2^14 *)
BitLength(n) ==
    IF n < 128
    THEN IF n < 8 THEN (IF n < 2 THEN 1 ELSE IF n < 4 THEN 2 ELSE 3)
         ELSE IF n < 32 THEN (IF n < 16 THEN 4 ELSE 5)
         ELSE IF n < 64 THEN 6 ELSE 7
    ELSE IF n < 1024 THEN (IF n < 256 THEN 8 ELSE IF n < 512 THEN 9 ELSE 10)
         ELSE IF n < 4096 THEN (IF n < 2048 THEN 11 ELSE 12)
         ELSE IF n < 8192 THEN 13 ELSE 14

(* k with 2^(k-10) <= |value| < 2^(k-9), for |value| = a/500 + sr/(125*2^62), *)
(* a >= 1: 2^(k-1) <= 512a/500; a value just below a power of two lies in  *)
(* the binade under it                                                     *)
Binade(a, sr) ==
    LET k0 == BitLength((128 * a) \div 125)
    IN IF 128 * a = 125 * 2^(k0 - 1) /\ sr < 0 THEN k0 - 1 ELSE k0

(* round to nearest, ties to even, at 53 significant bits: in the binade k *)
(* the doubles are the multiples of 2^(k-62), G in the units of r          *)
RoundInBinade(u, s, a, sr, k) ==
    LET G == 125 * 2^k
        rem == (2^(k + 1) * ((a * Pow2Mod125(59 - k)) % 125) + sr) % (2 * G)
        t == rem % G
        up == 2 * t > G \/ (2 * t = G /\ rem >= G)
    IN [u |-> u, r |-> s * (sr + (IF up THEN G - t ELSE -t))]

(* the double nearest the amount [u, r]; the sign is set aside first *)
RoundToDouble(u, r) ==
    IF u = 0 THEN [u |-> 0, r |-> r]
    ELSE IF u > 0 THEN RoundInBinade(u, 1, u, r, Binade(u, r))
    ELSE RoundInBinade(u, -1, -u, -r, Binade(-u, -r))

(* the double nearest u/500: a literal such as 0.2, or a quotient ir / 500 *)
Dbl(u) == RoundToDouble(u, 0)

(* a + b *)
FAdd(a, b) == RoundToDouble(a.u + b.u, a.r + b.r)

(* a >= b *)
FGeq(a, b) == a.u > b.u \/ (a.u = b.u /\ a.r >= b.r)

----------------------------------------------------------------------------
(* JavaScript numbers, continued: products.  The pricing code multiplies   *)
(* doubles and rounds the double with toFixed(2), so 14.26 * 0.85 * 5      *)
(* (60.60499999999999) gives 60.60 where the exact amount 60.605 would     *)
(* give 60.61.  Here a double is held as [m, e], its value m * 2^e, with   *)
(* the significand m a whole number of at most 53 bits written as a list   *)
(* of limbs, least significant first, in base 2^15.                        *)

LimbBits == 15
LimbBase == 2^LimbBits

(* x without its leading zero limbs *)
RECURSIVE BigTrim(_)
BigTrim(x) ==
    IF x = <<>> THEN x
    ELSE IF x[Len(x)] = 0 THEN BigTrim(SubSeq(x, 1, Len(x) - 1)) ELSE x

(* the limbs of the whole number n >= 0 *)
RECURSIVE BigOf(_)
BigOf(n) == IF n = 0 THEN <<>> ELSE <<n % LimbBase>> \o BigOf(n \div LimbBase)

(* the whole number of the limbs x, below 2^31 *)
RECURSIVE BigToInt(_)
BigToInt(x) == IF x = <<>> THEN 0 ELSE Head(x) + LimbBase * BigToInt(Tail(x))

(* x * k + carry for a limb k *)
RECURSIVE BigTimesLimb(_, _, _)
BigTimesLimb(x, k, carry) ==
    IF x = <<>> THEN BigOf(carry)
    ELSE <<(Head(x) * k + carry) % LimbBase>>
         \o BigTimesLimb(Tail(x), k, (Head(x) * k + carry) \div LimbBase)

(* x + y + carry *)
RECURSIVE BigPlus(_, _, _)
BigPlus(x, y, carry) ==
    IF x = <<>> /\ y = <<>> THEN BigOf(carry)
    ELSE IF x = <<>> THEN BigPlus(y, x, carry)
    ELSE IF y = <<>>
         THEN <<(Head(x) + carry) % LimbBase>>
              \o BigPlus(Tail(x), y, (Head(x) + carry) \div LimbBase)
         ELSE <<(Head(x) + Head(y) + carry) % LimbBase>>
              \o BigPlus(Tail(x), Tail(y), (Head(x) + Head(y) + carry) \div LimbBase)

(* x * y *)
RECURSIVE BigTimes(_, _)
BigTimes(x, y) ==
    IF x = <<>> \/ y = <<>> THEN <<>>
    ELSE BigPlus(BigTimesLimb(y, Head(x), 0), <<0>> \o BigTimes(Tail(x), y), 0)

(* long division of x by a divisor d of at most 2^15, x most significant   *)
(* limb first; rem is what the limbs above left.  The remainder:           *)
RECURSIVE BigRemainder(_, _, _)
BigRemainder(x, d, rem) ==
    IF x = <<>> THEN rem
    ELSE BigRemainder(Tail(x), d, (rem * LimbBase + Head(x)) % d)

(* and the quotient, least significant limb first *)
RECURSIVE BigQuotient(_, _, _)
BigQuotient(x, d, rem) ==
    IF x = <<>> THEN <<>>
    ELSE BigQuotient(Tail(x), d, (rem * LimbBase + Head(x)) % d)
         \o <<(rem * LimbBase + Head(x)) \div d>>

Reversed(x) == [i \in 1..Len(x) |-> x[Len(x) + 1 - i]]

(* the number of binary digits of x *)
BigBits(x) ==
    IF x = <<>> THEN 0
    ELSE LimbBits * (Len(x) - 1)
         + (IF x[Len(x)] >= 16384 THEN 15 ELSE BitLength(x[Len(x)]))

(* x with its lowest s binary digits dropped *)
BigShiftRight(x, s) ==
    IF s \div LimbBits >= Len(x) THEN <<>>
    ELSE BigTrim([i \in 1..(Len(x) - s \div LimbBits) |->
            x[i + s \div LimbBits] \div 2^(s % LimbBits)
            + (IF i + s \div LimbBits < Len(x)
               THEN (x[i + 1 + s \div LimbBits] % 2^(s % LimbBits))
                    * 2^(LimbBits - (s % LimbBits))
               ELSE 0)])

(* the lowest s binary digits of x are all 0 *)
BigLowZero(x, s) ==
    /\ \A i \in 1..Min(s \div LimbBits, Len(x)) : x[i] = 0
    /\ s \div LimbBits < Len(x) => x[1 + s \div LimbBits] % 2^(s % LimbBits) = 0

BigIsOdd(x) == x # <<>> /\ x[1] % 2 = 1

(* round to nearest, ties to even, at 53 significant bits: the amount is   *)
(* (big + a fraction) * 2^e, the fraction not 0 exactly when sticky; s is  *)
(* the number of digits to drop                                            *)
RoundDropping(big, sticky, e, s) ==
    IF BigIsOdd(BigShiftRight(big, s - 1))
       /\ (sticky \/ ~BigLowZero(big, s - 1) \/ BigIsOdd(BigShiftRight(big, s)))
    THEN [m |-> BigPlus(BigShiftRight(big, s), <<>>, 1), e |-> e + s]
    ELSE [m |-> BigShiftRight(big, s), e |-> e + s]

RoundTo53(big, sticky, e) ==
    IF BigBits(big) <= 53 THEN [m |-> big, e |-> e]
    ELSE RoundDropping(big, sticky, e, BigBits(big) - 53)

(* the double nearest n/d, what a decimal literal or a JSON number is read *)
(* as: n * 2^75 / d has 54 digits or more for 1 <= d <= 2^15               *)
DoubleOf(n, d) ==
    IF n = 0 THEN [m |-> <<>>, e |-> 0]
    ELSE RoundTo53(BigTrim(BigQuotient(Reversed(<<0, 0, 0, 0, 0>> \o BigOf(n)), d, 0)),
                   BigRemainder(Reversed(<<0, 0, 0, 0, 0>> \o BigOf(n)), d, 0) # 0,
                   -75)

(* a * b *)
FTimes(a, b) == RoundTo53(BigTimes(a.m, b.m), FALSE, a.e + b.e)

(* the amount times 100 as a whole number with s digits below the point;   *)
(* toFixed rounds the exact value of the double to the nearer cent, and up *)
(* when it lies halfway                                                    *)
CentsDropping(big, s) ==
    BigToInt(BigShiftRight(big, s)) + (IF BigIsOdd(BigShiftRight(big, s - 1)) THEN 1 ELSE 0)

(* Number(x.toFixed(2)) of a non-negative double below 2^31 / 100, in cents *)
ToFixed2(x) ==
    IF x.m = <<>> THEN 0
    ELSE IF x.e >= 0 THEN BigToInt(BigTimesLimb(x.m, 100, 0)) * 2^(x.e)
    ELSE CentsDropping(BigTimesLimb(x.m, 100, 0), -(x.e))

(* an area as the double the code receives; areas are counted in           *)
(* ten-thousandths of a square foot, so that 10.0025 sq ft is 100025       *)
SquareFeet(area) == DoubleOf(area, 10000)

----------------------------------------------------------------------------
(* products.json: brand blocks, each a brand name and its product list *)

(* A product's name and series are <<>> when the field is absent and     *)
(* <<str>> when it is given, the empty string included: the flattening     *)
(* tells the two apart.                                                    *)
Absent == <<>>
Given(str) == <<str>>

EmptyProduct ==
    [product_name |-> Absent, series |-> Absent, category |-> "", use_cases |-> <<>>,
     property_types |-> <<>>, visible_light_transmission |-> NoNum, vlt |-> NoNum,
     ir_reduction_pct |-> NoNum, ir_reduction |-> NoNum,
     uv_rejection_pct |-> NoNum, uv_rejection |-> NoNum,
     install_location |-> <<>>, price_tier |-> "", exterior_ok |-> "undefined"]

P(name, series, category, uses, props, vlt, ir, uv, locs, tier, ext) ==
    [EmptyProduct EXCEPT
        !.product_name = name, !.series = series, !.category = category,
        !.use_cases = uses, !.property_types = props,
        !.visible_light_transmission = vlt, !.ir_reduction_pct = ir,
        !.uv_rejection_pct = uv, !.install_location = locs,
        !.price_tier = tier, !.exterior_ok = ext]

Res == <<"residential">>
Com == <<"commercial">>
Both == <<"residential", "commercial">>
LocInt == <<"interior">>
LocExt == <<"exterior">>

(* The last block has no brand name, its first product neither a name    *)
(* nor a series, and its second product the empty string for a name.       *)
BlockUniverse ==
    << [brand |-> "3M", brand_page_url |-> "", products |-> <<
          P(Given("Prestige 70"), Given("Prestige"), "solar_control", <<"heat", "glare", "uv">>,
            Both, 70, 97, 99, LocInt, "premium", "undefined"),
          P(Given("Prestige 70"), Given("Prestige Exterior"), "solar_control", <<"heat">>,
            Com, 70, 80, 99, LocExt, "premium", "true"),
          P(Given("Night Vision 15"), Given("Night Vision"), "solar_control", <<"heat", "glare", "privacy">>,
            Res, 15, 60, 99, LocInt, "mid", "undefined") >>],
       [brand |-> "LLumar", brand_page_url |-> "", products |-> <<
          P(Given("Vista V45"), Given("Vista"), "solar_control", <<"heat", "glare">>,
            Both, 45, 80, 99, <<>>, "mid", "undefined"),
          P(Given("Frost Matte"), Absent, "decorative", <<"privacy", "decorative">>,
            Both, 65, NoNum, 90, LocInt, "value", "false"),
          P(Given("Vista V30"), Given("Vista"), "solar_control", <<"heat", "glare">>,
            Both, 30, 85, 99, <<>>, "mid", "undefined") >>],
       [brand |-> "Huper Optik", brand_page_url |-> "", products |-> <<
          P(Given("Ceramic 40"), Given("Ceramic"), "solar_control", <<"heat", "uv">>,
            Both, 40, 80, 99, LocInt, "premium", "undefined"),
          P(Given("Select Drei"), Given("Select"), "solar_control", <<"heat", "glare", "uv">>,
            Res, 58, 90, 99, LocInt, "premium", "undefined") >>],
       [brand |-> "Solar Gard", brand_page_url |-> "", products |-> <<
          P(Given("Silver 20"), Given("OSW Exterior"), "solar_control", <<"heat", "glare", "privacy">>,
            Com, 20, 70, 95, <<"interior", "exterior">>, "value", "true"),
          P(Given("Armorcoat 8 Mil"), Given("Armorcoat Safety"), "security", <<"security">>,
            Both, 88, NoNum, 99, LocInt, "mid", "undefined") >>],
       [brand |-> "3M Window Film", brand_page_url |-> "", products |-> <<
          P(Given("Security S70 7 Mil"), Given("Safety & Security"), "security", <<"security", "uv">>,
            Both, 70, 40, 99, LocInt, "premium", "undefined"),
          P(Given("Affinity 30"), Given("Affinity"), "solar_control", <<"heat", "glare">>,
            Com, 30, 80, 99, LocInt, "value", "undefined") >>],
       [brand |-> "XPEL", brand_page_url |-> "", products |-> <<
          P(Given("Prime XR 35"), Given("Prime"), "solar_control", <<"heat", "glare", "uv">>,
            Both, 35, 80, 99, LocInt, "mid", "undefined"),
          P(Given("Graffiti Shield 6 Mil"), Given("Anti-Vandal"), "anti_graffiti", <<"graffiti">>,
            Com, 89, NoNum, 98, <<"interior", "exterior">>, "mid", "true") >>],
       [brand |-> "Madico", brand_page_url |-> "", products |-> <<
          P(Given("Sunscape 28"), Given("Sunscape"), "solar_control", <<"heat">>,
            Both, NoNum, 80, 84, <<>>, "", "undefined"),
          P(Given("Optivision 15"), Absent, "privacy", <<"privacy", "glare">>,
            <<>>, 0, NoNum, NoNum, LocInt, "value", "undefined") >>],
       [brand |-> "", brand_page_url |-> "", products |-> <<
          P(Absent, Absent, "solar_control", <<"heat", "glare">>,
            Both, 50, 80, 99, LocInt, "mid", "undefined"),
          P(Given(""), Given("Vista"), "solar_control", <<"heat", "glare">>,
            Both, 45, 80, 99, <<>>, "mid", "undefined"),
          P(Given("Vista V45"), Given("Vista"), "solar_control", <<"heat", "glare">>,
            Both, 45, 80, 99, <<>>, "mid", "undefined") >>] >>

NBlocks == Len(BlockUniverse)

(* The blocks start, start+1, ... (cyclically), nb of them, each cut to   *)
(* its first cap products.                                                 *)
BlockWindow(start, nb, cap) ==
    [k \in 1..nb |->
        LET blk == BlockUniverse[((start + k - 2) % NBlocks) + 1] IN
        [blk EXCEPT !.products = Take(blk.products, cap)]]

----------------------------------------------------------------------------
(* The flattened catalog: one film record per product of every block *)

NoPrice == [residential |-> NoNum, commercial |-> NoNum]

EmptyFilm ==
    [sku |-> "", brand |-> "", product_name |-> "", name |-> "", series |-> "",
     category |-> "", best_for |-> <<>>, use_cases |-> <<>>,
     visible_light_transmission |-> NoNum, ir_reduction_pct |-> NoNum,
     uv_rejection_pct |-> NoNum, install_location |-> <<>>,
     price_tier |-> "", tier |-> "", exterior_ok |-> "undefined",
     typical_installed_price_per_sqft_usd |-> NoPrice]

(* toKebab on the strings of the universe: trim, lower-case, runs of       *)
(* non-alphanumerics to "-", leading and trailing "-" removed.             *)
toKebab(input) ==
    CASE input = "" -> ""
      [] input = "3M" -> "3m"
      [] input = "LLumar" -> "llumar"
      [] input = "Huper Optik" -> "huper-optik"
      [] input = "Solar Gard" -> "solar-gard"
      [] input = "3M Window Film" -> "3m-window-film"
      [] input = "XPEL" -> "xpel"
      [] input = "Madico" -> "madico"
      [] input = "Unknown" -> "unknown"
      [] input = "film" -> "film"
      [] input = "Prestige 70" -> "prestige-70"
      [] input = "Night Vision 15" -> "night-vision-15"
      [] input = "Vista" -> "vista"
      [] input = "Vista V45" -> "vista-v45"
      [] input = "Vista V30" -> "vista-v30"
      [] input = "Frost Matte" -> "frost-matte"
      [] input = "Ceramic 40" -> "ceramic-40"
      [] input = "Select Drei" -> "select-drei"
      [] input = "Silver 20" -> "silver-20"
      [] input = "Armorcoat 8 Mil" -> "armorcoat-8-mil"
      [] input = "Security S70 7 Mil" -> "security-s70-7-mil"
      [] input = "Affinity 30" -> "affinity-30"
      [] input = "Prime XR 35" -> "prime-xr-35"
      [] input = "Graffiti Shield 6 Mil" -> "graffiti-shield-6-mil"
      [] input = "Sunscape 28" -> "sunscape-28"
      [] input = "Optivision 15" -> "optivision-15"

(* a || b on strings, a ?? b on numbers *)
OrStr(a, b) == IF a # "" THEN a ELSE b

(* a || b and a ?? b on a product's name or series *)
OrGiven(a, b) == IF a # Absent /\ a[1] # "" THEN a[1] ELSE b

CoalesceGiven(a, b) == IF a # Absent THEN a[1] ELSE b

Coalesce(a, b) == IF a # NoNum THEN a ELSE b

FlattenProduct(block, p) ==
    LET brandName == OrStr(block.brand, "Unknown") IN
    [EmptyFilm EXCEPT
        !.sku = toKebab(brandName) \o "-"
                    \o toKebab(OrGiven(p.product_name, OrGiven(p.series, "film"))),
        !.brand = brandName,
        !.product_name = CoalesceGiven(p.product_name,
                                       CoalesceGiven(p.series, "Unknown")),
        !.category = p.category,
        !.best_for = p.property_types,
        !.use_cases = p.use_cases,
        !.visible_light_transmission = Coalesce(p.visible_light_transmission, p.vlt),
        !.ir_reduction_pct = Coalesce(p.ir_reduction_pct, p.ir_reduction),
        !.uv_rejection_pct = Coalesce(p.uv_rejection_pct, p.uv_rejection),
        !.install_location = p.install_location,
        !.price_tier = p.price_tier,
        !.exterior_ok = p.exterior_ok,
        !.series = CoalesceGiven(p.series, "")]

RECURSIVE FlattenBlocks(_)
FlattenBlocks(blocks) ==
    IF blocks = <<>> THEN <<>>
    ELSE LET block == Head(blocks) IN
         [i \in 1..Len(block.products) |-> FlattenProduct(block, block.products[i])]
            \o FlattenBlocks(Tail(blocks))

----------------------------------------------------------------------------
(* Catalog documents: any JSON value may arrive where a catalog is read *)

JNull == [t |-> "null"]
JScalar(truthy) == [t |-> "scalar", truthy |-> truthy]
JList(items) == [t |-> "list", items |-> items]
JRec(f) == [t |-> "record", f |-> f]
JMap(keys, vals) == [t |-> "map", keys |-> keys, vals |-> vals]
JString(str) == [t |-> "scalar", truthy |-> str # "", str |-> str]
JNumber(n) == [t |-> "scalar", truthy |-> n # 0, n |-> n]

IsArray(v) == v.t = "list"

(* typeof v === "object": null, arrays and plain objects *)
TypeofObject(v) == v.t \in {"null", "list", "record", "map"}

Truthy(v) == v.t \in {"list", "record", "map"} \/ (v.t = "scalar" /\ v.truthy)

HasKey(m, key) == \E i \in 1..Len(m.keys) : m.keys[i] = key

Get(m, key) == m.vals[CHOOSE i \in 1..Len(m.keys) : m.keys[i] = key]

(* the own properties of a film record in the order the record lists     *)
(* them, a field that is "", NoNum, <<>>, "undefined" or NoPrice being     *)
(* absent from the document                                                *)
StringEntry(key, str) ==
    IF str = "" THEN <<>> ELSE <<[key |-> key, val |-> JString(str)]>>

NumberEntry(key, n) ==
    IF n = NoNum THEN <<>> ELSE <<[key |-> key, val |-> JNumber(n)]>>

ArrayEntry(key, strs) ==
    IF strs = <<>> THEN <<>>
    ELSE <<[key |-> key, val |-> JList([i \in 1..Len(strs) |-> JString(strs[i])])]>>

PriceEntry(key, price) ==
    LET entries == NumberEntry("residential", price.residential)
                   \o NumberEntry("commercial", price.commercial)
    IN IF entries = <<>> THEN <<>>
       ELSE <<[key |-> key,
               val |-> JMap([i \in 1..Len(entries) |-> entries[i].key],
                            [i \in 1..Len(entries) |-> entries[i].val])]>>

FieldEntries(f) ==
    StringEntry("sku", f.sku) \o StringEntry("brand", f.brand)
    \o StringEntry("product_name", f.product_name) \o StringEntry("name", f.name)
    \o StringEntry("series", f.series) \o StringEntry("category", f.category)
    \o ArrayEntry("best_for", f.best_for) \o ArrayEntry("use_cases", f.use_cases)
    \o NumberEntry("visible_light_transmission", f.visible_light_transmission)
    \o NumberEntry("ir_reduction_pct", f.ir_reduction_pct)
    \o NumberEntry("uv_rejection_pct", f.uv_rejection_pct)
    \o ArrayEntry("install_location", f.install_location)
    \o StringEntry("price_tier", f.price_tier) \o StringEntry("tier", f.tier)
    \o (IF f.exterior_ok = "undefined" THEN <<>>
        ELSE <<[key |-> "exterior_ok", val |-> JScalar(f.exterior_ok = "true")]>>)
    \o PriceEntry("typical_installed_price_per_sqft_usd",
                  f.typical_installed_price_per_sqft_usd)

(* a plain object as its keys and values: a film record is one *)
ObjectView(input) ==
    IF input.t = "record"
    THEN JMap([i \in 1..Len(FieldEntries(input.f)) |-> FieldEntries(input.f)[i].key],
              [i \in 1..Len(FieldEntries(input.f)) |-> FieldEntries(input.f)[i].val])
    ELSE input

WrapperKeys == <<"films", "items", "data", "catalog", "rows", "list">>

(* the for-loop over the candidate keys: the first key holding an array *)
RECURSIVE FirstArrayUnder(_, _)
FirstArrayUnder(input, candidates) ==
    IF candidates = <<>> THEN [found |-> FALSE, items |-> <<>>]
    ELSE IF HasKey(input, Head(candidates)) /\ IsArray(Get(input, Head(candidates)))
         THEN [found |-> TRUE, items |-> Get(input, Head(candidates)).items]
         ELSE FirstArrayUnder(input, Tail(candidates))

(* the resolution with a list input filtered down to its record entries *)
NormalizeKeepingRecords(input, everyValueOk) ==
    IF IsArray(input) THEN SelectSeq(input.items, LAMBDA e : e.t = "record")
    ELSE IF ~Truthy(input) \/ ~TypeofObject(input) THEN <<>>
    ELSE LET hit == FirstArrayUnder(ObjectView(input), WrapperKeys) IN
         IF hit.found THEN hit.items
         ELSE IF Len(ObjectView(input).vals) > 0 /\ everyValueOk
              THEN ObjectView(input).vals
              ELSE <<>>

(* the resolution order both copies share; everyValueOk is the outcome of  *)
(* the copy's values.every(...) test                                       *)
NormalizeWith(input, everyValueOk) ==
    IF IsArray(input) THEN input.items
    ELSE IF ~Truthy(input) \/ ~TypeofObject(input) THEN <<>>
    ELSE LET hit == FirstArrayUnder(ObjectView(input), WrapperKeys) IN
         IF hit.found THEN hit.items
         ELSE IF Len(ObjectView(input).vals) > 0 /\ everyValueOk
              THEN ObjectView(input).vals
              ELSE <<>>

(* lib/scoring: values.every((v) => v && typeof v === "object") *)
ScoringValueOk(v) == Truthy(v) /\ TypeofObject(v)

EveryScoringValueOk(input) ==
    /\ input.t \in {"map", "record"}
    /\ \A i \in 1..Len(ObjectView(input).vals) : ScoringValueOk(ObjectView(input).vals[i])

normalizeFilms(input) == NormalizeWith(input, EveryScoringValueOk(input))

(* lib/pricing: values.every((v) => typeof v === "object") *)
PricingValueOk(v) == TypeofObject(v)

EveryPricingValueOk(input) ==
    /\ input.t \in {"map", "record"}
    /\ \A i \in 1..Len(ObjectView(input).vals) : PricingValueOk(ObjectView(input).vals[i])

normalizeFilmsPricing(input) == NormalizeWith(input, EveryPricingValueOk(input))

----------------------------------------------------------------------------
(* films.json as the pricing tool may find it *)

Priced(sku, res, com) ==
    JRec([EmptyFilm EXCEPT !.sku = sku, !.brand = "LLumar", !.name = sku,
            !.typical_installed_price_per_sqft_usd =
                [residential |-> res, commercial |-> com]])

FilmA == Priced("a", 998, 1200)
FilmB == Priced("b", 1426, NoNum)
FilmA2 == Priced("a", 862, 1112)

GoodList == <<FilmA, FilmB, FilmA2>>

(* {"use_cases": ["heat"]} and {"typical_installed_price_per_sqft_usd":    *)
(* {"residential": 9.98}}: objects whose every value is an array or an     *)
(* object                                                                  *)
UseCasesOnly == JRec([EmptyFilm EXCEPT !.use_cases = <<"heat">>])

PriceOnly ==
    JRec([EmptyFilm EXCEPT !.typical_installed_price_per_sqft_usd =
            [residential |-> 998, commercial |-> NoNum]])

Documents ==
    { JList(<<>>), JList(<<FilmA>>), JList(GoodList), JList(<<FilmB, FilmA2>>),
      JList(<<FilmA, JNull, FilmB>>), JList(<<JNull>>),
      JList(<<JScalar(TRUE), FilmB>>), JList(<<JList(<<FilmA>>)>>),
      JNull, JScalar(TRUE), JScalar(FALSE),
      JMap(<<>>, <<>>),
      JMap(<<"films">>, <<JList(GoodList)>>),
      JMap(<<"items", "films">>, <<JList(<<FilmB>>), JList(<<FilmA>>)>>),
      JMap(<<"list", "rows">>, <<JList(<<FilmB>>), JList(<<FilmA2>>)>>),
      JMap(<<"films", "data">>, <<JNull, JList(<<FilmA, FilmB>>)>>),
      JMap(<<"films", "catalog">>, <<JScalar(TRUE), JList(<<FilmB>>)>>),
      JMap(<<"brands">>, <<JList(<<FilmA, FilmB>>)>>),
      JMap(<<"a", "b">>, <<FilmA, FilmB>>),
      JMap(<<"a", "b">>, <<FilmA, JNull>>),
      JMap(<<"a", "b">>, <<FilmB, JScalar(TRUE)>>),
      JMap(<<"a", "meta">>, <<FilmA, JMap(<<"n">>, <<JScalar(TRUE)>>)>>),
      JMap(<<"version">>, <<JScalar(TRUE)>>),
      JMap(<<"films">>, <<JList(<<FilmA, JNull>>)>>),
      FilmA, UseCasesOnly, PriceOnly }

DefaultDocument == JList(GoodList)

----------------------------------------------------------------------------
(* lib/pricing: calculatePricing *)

PriceNote == "Estimate ±15% for access and complexity."

(* filmsArr.find((f) => f.sku === sku): reading .sku of a null entry       *)
(* throws; a scalar or a nested array has no sku and is passed over.       *)
RECURSIVE FindBySku(_, _)
FindBySku(filmsArr, sku) ==
    IF filmsArr = <<>> THEN [threw |-> FALSE, found |-> FALSE, film |-> EmptyFilm]
    ELSE LET e == Head(filmsArr) IN
         IF e.t = "null" THEN [threw |-> TRUE, found |-> FALSE, film |-> EmptyFilm]
         ELSE IF e.t = "record" /\ e.f.sku = sku
              THEN [threw |-> FALSE, found |-> TRUE, film |-> e.f]
              ELSE FindBySku(Tail(filmsArr), sku)

(* the price in cents as the double the code reads from films.json, 0     *)
(* when the film has none for the property type                            *)
PriceBase(film, property_type) ==
    IF film.typical_installed_price_per_sqft_usd[property_type] = NoNum
    THEN DoubleOf(0, 1)
    ELSE DoubleOf(film.typical_installed_price_per_sqft_usd[property_type], 100)

(* a quote line whose subtotals are taken from the rounded unit prices *)
PriceLineFromReportedUnit(film, sku, area, property_type) ==
    LET unitLow == ToFixed2(FTimes(PriceBase(film, property_type), DoubleOf(85, 100)))
        unitHigh == ToFixed2(FTimes(PriceBase(film, property_type), DoubleOf(115, 100)))
    IN [sku |-> sku,
        unit_price_low |-> unitLow,
        unit_price_high |-> unitHigh,
        subtotal_low |-> ToFixed2(FTimes(DoubleOf(unitLow, 100), SquareFeet(area))),
        subtotal_high |-> ToFixed2(FTimes(DoubleOf(unitHigh, 100), SquareFeet(area))),
        notes |-> PriceNote]

(* the line once low = base * 0.85 and high = base * 1.15 are computed;    *)
(* money is reported in cents                                              *)
PricedAt(sku, low, high, area) ==
    [sku |-> sku,
     unit_price_low |-> ToFixed2(low),
     unit_price_high |-> ToFixed2(high),
     subtotal_low |-> ToFixed2(FTimes(low, area)),
     subtotal_high |-> ToFixed2(FTimes(high, area)),
     notes |-> PriceNote]

(* one line of the quote; area in ten-thousandths of a square foot *)
PriceLine(film, sku, area, property_type) ==
    PricedAt(sku,
             FTimes(PriceBase(film, property_type), DoubleOf(85, 100)),
             FTimes(PriceBase(film, property_type), DoubleOf(115, 100)),
             SquareFeet(area))

QuoteLine(filmsArr, sku, area, property_type) ==
    LET hit == FindBySku(filmsArr, sku) IN
    IF ~hit.found THEN [sku |-> sku, error |-> "Film not found"]
    ELSE PriceLine(hit.film, sku, area, property_type)

calculatePricing(filmsDoc, sku_list, area, property_type) ==
    LET filmsArr == normalizeFilmsPricing(filmsDoc) IN
    IF \E i \in 1..Len(sku_list) : FindBySku(filmsArr, sku_list[i]).threw
    THEN [threw |-> TRUE, out |-> <<>>]
    ELSE [threw |-> FALSE,
          out |-> [i \in 1..Len(sku_list) |->
                      QuoteLine(filmsArr, sku_list[i], area, property_type)]]

(* tools/estimatePrice.ts (identifier revision): the module keeps          *)
(* Array.isArray(filmsData) ? filmsData : (filmsData.films ?? []); reading *)
(* .films of null throws when the module loads.                            *)
ModuleFilms(doc) ==
    IF IsArray(doc) THEN doc
    ELSE IF doc.t = "map" /\ HasKey(doc, "films") /\ Get(doc, "films").t # "null"
         THEN Get(doc, "films")
         ELSE JList(<<>>)

estimatePriceBySku(doc, square_feet, property_type, sku_list) ==
    IF doc.t = "null" THEN [threw |-> TRUE, out |-> <<>>]
    ELSE LET r == calculatePricing(ModuleFilms(doc), sku_list, square_feet, property_type) IN
         IF r.threw THEN r
         ELSE [threw |-> FALSE,
               out |-> [square_feet |-> square_feet, property_type |-> property_type,
                        quotes |-> r.out]]

----------------------------------------------------------------------------
(* tools/estimatePrice (baseline revision): fixed tier table, dollars *)

(* the tier table with the two property types exchanged *)
TiersSwapped(property_type) ==
    IF property_type = "residential"
    THEN << [id |-> "baseline_value", low |-> 16, high |-> 21],
            [id |-> "baseline_mid", low |-> 18, high |-> 23],
            [id |-> "baseline_premium", low |-> 20, high |-> 26] >>
    ELSE << [id |-> "baseline_value", low |-> 14, high |-> 19],
            [id |-> "baseline_mid", low |-> 16, high |-> 21],
            [id |-> "baseline_premium", low |-> 18, high |-> 24] >>

Tiers(property_type) ==
    IF property_type = "commercial"
    THEN << [id |-> "baseline_value", low |-> 16, high |-> 21],
            [id |-> "baseline_mid", low |-> 18, high |-> 23],
            [id |-> "baseline_premium", low |-> 20, high |-> 26] >>
    ELSE << [id |-> "baseline_value", low |-> 14, high |-> 19],
            [id |-> "baseline_mid", low |-> 16, high |-> 21],
            [id |-> "baseline_premium", low |-> 18, high |-> 24] >>

(* a tier quote whose high subtotal is taken from the low unit price *)
TierQuoteHighFromLow(t, square_feet) ==
    [sku |-> t.id,
     unit_price_low |-> t.low * 100,
     unit_price_high |-> t.high * 100,
     subtotal_low |-> ToFixed2(FTimes(SquareFeet(square_feet), DoubleOf(t.low, 1))),
     subtotal_high |-> ToFixed2(FTimes(SquareFeet(square_feet), DoubleOf(t.low, 1))),
     notes |-> PriceNote]

(* unit prices in cents; Number((square_feet * t.low).toFixed(2)) *)
TierQuote(t, square_feet) ==
    [sku |-> t.id,
     unit_price_low |-> t.low * 100,
     unit_price_high |-> t.high * 100,
     subtotal_low |-> ToFixed2(FTimes(SquareFeet(square_feet), DoubleOf(t.low, 1))),
     subtotal_high |-> ToFixed2(FTimes(SquareFeet(square_feet), DoubleOf(t.high, 1))),
     notes |-> PriceNote]

(* the handler *)
TierQuotes(square_feet, property_type, budget_level) ==
    LET tiers == Tiers(property_type)
        active == SelectSeq(tiers, LAMBDA t : t.id = "baseline_" \o budget_level)
        quotes == IF budget_level # ""
                  THEN IF active # <<>> THEN <<TierQuote(active[1], square_feet)>> ELSE <<>>
                  ELSE [i \in 1..Len(tiers) |-> TierQuote(tiers[i], square_feet)]
    IN [threw |-> FALSE,
        out |-> [square_feet |-> square_feet, property_type |-> property_type,
                 quotes |-> quotes,
                 has_price_range |-> (budget_level # "" /\ active # <<>>)]]

(* this revision keeps the same module-level films line as the identifier  *)
(* revision, though the handler never uses films: reading .films of null   *)
(* throws when the module loads, and no estimate is given                  *)
estimatePriceBaseline(doc, square_feet, property_type, budget_level) ==
    IF doc.t = "null" THEN [threw |-> TRUE, out |-> <<>>]
    ELSE TierQuotes(square_feet, property_type, budget_level)

----------------------------------------------------------------------------
(* lib/scoring: scoreFilms.  Scores in units of 1/500.                     *)

(* The words the regular expressions of the scorer look for, as they occur *)
(* (case-insensitively) in the strings of the universe.                    *)
Keywords(str) ==
    CASE str = "security" -> {"security"}
      [] str = "Safety & Security" -> {"security", "safety"}
      [] str = "Security S70 7 Mil" -> {"security"}
      [] str = "Armorcoat Safety" -> {"safety"}
      [] str = "anti_graffiti" -> {"graffiti"}
      [] str = "graffiti" -> {"graffiti"}
      [] str = "Graffiti Shield 6 Mil" -> {"graffiti"}
      [] str = "Anti-Vandal" -> {"anti-vandal"}
      [] str = "Prestige Exterior" -> {"prestige", "exterior"}
      [] str = "OSW Exterior" -> {"osw", "exterior"}
      [] str = "Prestige" -> {"prestige"}
      [] str = "Prestige 70" -> {"prestige"}
      [] str = "Silver 20" -> {"silver"}
      [] str = "solar_control" -> {"solar"}
      [] str = "value" -> {"value"}
      [] str = "mid" -> {"mid"}
      [] str = "premium" -> {"premium"}
      [] OTHER -> {}

Test(words, str) == Keywords(str) \cap words # {}

(* parseMil: the number before "mil" in the name, 0 for no match *)
parseMil(name) ==
    CASE name = "Armorcoat 8 Mil" -> 8
      [] name = "Security S70 7 Mil" -> 7
      [] name = "Graffiti Shield 6 Mil" -> 6
      [] OTHER -> 0

(* Number(x) || 0 *)
NumOrZero(x) == IF x = NoNum THEN 0 ELSE x

(* the view the scorer has of a catalog entry: a scalar or a nested array  *)
(* has none of the fields                                                  *)
AsFilm(e) == IF e.t = "record" THEN e.f ELSE EmptyFilm

NameStr(film) == OrStr(film.product_name, film.name)

IsSecurityCategory(film) ==
    \/ Test({"security"}, film.category)
    \/ Test({"security"}, film.series)
    \/ Test({"security"}, NameStr(film))
    \/ \E i \in 1..Len(film.use_cases) : Test({"security"}, film.use_cases[i])

IsGraffitiCategory(film) ==
    \/ Test({"graffiti"}, film.category)
    \/ Test({"graffiti", "anti-vandal"}, film.series)
    \/ Test({"graffiti"}, NameStr(film))
    \/ \E i \in 1..Len(film.use_cases) : Test({"graffiti"}, film.use_cases[i])

IsExteriorCapable(film) ==
    \/ Test({"exterior"}, film.category)
    \/ Test({"osw", "exterior"}, film.series)
    \/ Test({"exterior"}, NameStr(film))

WantsUV(goals) == Contains(goals, "uv") \/ Contains(goals, "uv / fade") \/ Contains(goals, "fade")

(* A scoring rule yields [d |-> score delta, why |-> reasons appended].    *)
NoRule == [d |-> 0, why |-> <<>>]

Rule(d, reason) == [d |-> d, why |-> <<reason>>]

Silent(d) == [d |-> d, why |-> <<>>]

RECURSIVE GoalFit(_, _)
GoalFit(goals, useCases) ==
    IF goals = <<>> THEN NoRule
    ELSE LET rest == GoalFit(Tail(goals), useCases) IN
         IF Contains(useCases, Head(goals))
         THEN [d |-> 250 + rest.d, why |-> <<"Good for " \o Head(goals)>> \o rest.why]
         ELSE rest

PropertyHint(film, property_type) ==
    IF Contains(film.best_for, property_type)
    THEN Rule(100, "Geared for " \o property_type) ELSE NoRule

HeatByIR(film, goals) ==
    LET ir == NumOrZero(film.ir_reduction_pct) IN
    IF ir # 0 /\ Contains(goals, "heat") THEN Silent(ir) ELSE NoRule

UVProportional(film, goals) ==
    LET uv == NumOrZero(film.uv_rejection_pct) IN
    IF uv # 0 /\ WantsUV(goals) THEN Silent(uv) ELSE NoRule

UVExceptional(film, goals) ==
    IF WantsUV(goals) /\ NumOrZero(film.uv_rejection_pct) >= 95
    THEN Rule(25, "High UV (95%+)") ELSE NoRule

PrivacyLowVLT(film, goals) ==
    LET vlt == NumOrZero(film.visible_light_transmission) IN
    IF vlt # 0 /\ Contains(goals, "privacy") /\ vlt < 20 THEN Silent(100) ELSE NoRule

SecuritySeries(film, goals) ==
    IF Contains(goals, "security")
    THEN IF IsSecurityCategory(film) THEN Rule(1500, "Security series") ELSE NoRule
    ELSE IF IsSecurityCategory(film) THEN Silent(-125) ELSE NoRule

MilName(mil) == CASE mil = 7 -> "7" [] mil = 8 -> "8" [] OTHER -> "n"

Thickness(film, goals) ==
    LET mil == parseMil(NameStr(film)) IN
    IF Contains(goals, "security") /\ mil # 0 /\ mil >= 7
    THEN Rule(1000, MilName(mil) \o " mil thickness") ELSE NoRule

GraffitiRule(film, goals) ==
    IF IsGraffitiCategory(film) /\ ~Contains(goals, "graffiti")
    THEN IF Contains(goals, "security") THEN Rule(-750, "Graffiti is not security")
         ELSE Silent(-375)
    ELSE NoRule

(* the en dash and the less-or-equal sign of the reasons as JSON escapes *)
VLTPreference(film, vlt_preference) ==
    LET vlt == NumOrZero(film.visible_light_transmission) IN
    CASE vlt_preference = "brighter" ->
            IF vlt >= 65 THEN Rule(110, "Brighter: favors high VLT (65%+)")
            ELSE IF vlt >= 55 THEN Rule(90, "Brighter: favors VLT 55\\u201364%")
            ELSE IF vlt <= 25 THEN Rule(-60, "Brighter: avoids very dark (\\u226425% VLT)")
            ELSE NoRule
      [] vlt_preference = "neutral" ->
            IF vlt >= 35 /\ vlt <= 55 THEN Rule(50, "Neutral: favors mid VLT (35\\u201355%)")
            ELSE NoRule
      [] vlt_preference = "darker" ->
            IF vlt <= 30 THEN Rule(50, "Darker: favors \\u226430% VLT") ELSE NoRule
      [] OTHER -> NoRule

ExteriorHint(film, install_location) ==
    IF install_location = "exterior" /\ IsExteriorCapable(film)
    THEN Rule(100, "Exterior-capable") ELSE NoRule

InteriorNudge(film, install_location) ==
    IF install_location = "interior" /\ ~IsSecurityCategory(film)
    THEN Silent(25) ELSE NoRule

TierStr(film) == OrStr(film.tier, film.price_tier)

(* value|basic|good, mid|better|standard, premium|best|elite: of these the *)
(* tiers of the universe spell only value, mid and premium                 *)
BudgetNudge(film, budget_level) ==
    IF budget_level # "" /\ TierStr(film) # ""
       /\ \E w \in {"value", "mid", "premium"} :
             Test({w}, budget_level) /\ Test({w}, TierStr(film))
    THEN Silent(25) ELSE NoRule

StrictRules(film, ctx) ==
    << GoalFit(ctx.goals, film.use_cases),
       PropertyHint(film, ctx.property_type),
       HeatByIR(film, ctx.goals),
       UVProportional(film, ctx.goals),
       UVExceptional(film, ctx.goals),
       PrivacyLowVLT(film, ctx.goals),
       SecuritySeries(film, ctx.goals),
       Thickness(film, ctx.goals),
       GraffitiRule(film, ctx.goals),
       VLTPreference(film, ctx.vlt_preference),
       ExteriorHint(film, ctx.install_location),
       InteriorNudge(film, ctx.install_location),
       BudgetNudge(film, ctx.budget_level) >>

(* score += d and why.push(...) rule after rule, from [score, why]; a rule *)
(* that does not fire adds nothing                                         *)
RECURSIVE SumRules(_, _)
SumRules(acc, rules) ==
    IF rules = <<>> THEN acc
    ELSE LET rule == Head(rules) IN
         SumRules([score |-> IF rule.d = 0 THEN acc.score
                             ELSE FAdd(acc.score, Dbl(rule.d)),
                   why |-> acc.why \o rule.why],
                  Tail(rules))

(* { ...film, score, why } *)
Scored(film, total) == [film |-> film, score |-> total.score, why |-> total.why]

BaseScore(film, ctx) ==
    Scored(film, SumRules([score |-> Dbl(0), why |-> <<>>], StrictRules(film, ctx)))

(* Number(score.toFixed(2)): to the nearest 1/100, which is 5 units *)
(* (no whole number of units lies halfway, and r is far below a unit)      *)
Round2(u) == IF u >= 0 THEN 5 * ((u + 2) \div 5) ELSE -(5 * ((2 - u) \div 5))

(* array.sort((a, b) => b.score - a.score) *)
SortByScoreDesc(scored) ==
    StableSortBy(scored,
        [i \in 1..Len(scored) |-> <<-(scored[i].score.u), -(scored[i].score.r)>>])

(* the fields the scorer returns for one record *)
Project(x) ==
    [sku |-> x.film.sku, brand |-> x.film.brand,
     vlt |-> x.film.visible_light_transmission,
     ir_pct |-> x.film.ir_reduction_pct, uv_pct |-> x.film.uv_rejection_pct,
     score |-> Round2(x.score.u), why |-> x.why]

(* the sufficiency test had it let two records pass at the lower threshold *)
SufficientAnyTwo(sortedBase) ==
    /\ Len(sortedBase) >= 2
    /\ FGeq(sortedBase[1].score, Dbl(400))

Sufficient(sortedBase) ==
    LET top3 == Take(sortedBase, 3)
        maxScore == IF Len(sortedBase) > 0 THEN sortedBase[1].score ELSE Dbl(0)
    IN \/ (Len(top3) >= 3 /\ FGeq(maxScore, Dbl(400)))
       \/ (Len(top3) >= 2 /\ FGeq(maxScore, Dbl(500)))

LooksSolar(film) ==
    \/ Test({"solar", "sun control", "reflect"}, film.category)
    \/ Test({"solar", "sun control", "prestige", "silver", "quantum", "dual reflect"},
            film.series)
    \/ Test({"solar", "sun control", "prestige", "silver", "quantum", "dual reflect"},
            NameStr(film))

IsSecurityish(film) ==
    \/ Test({"security", "safety"}, film.category)
    \/ Test({"security", "safety"}, film.series)
    \/ Test({"security", "safety"}, NameStr(film))

BroadSolar(film, goals) ==
    IF (Contains(goals, "heat") \/ Contains(goals, "glare")) /\ LooksSolar(film)
    THEN Rule(175, "Broadened: solar-control likely to help heat/glare") ELSE NoRule

BroadPrivacy(film, goals) ==
    IF Contains(goals, "privacy") /\ NumOrZero(film.visible_light_transmission) <= 45
    THEN Rule(100, "Broadened: darker VLT for privacy") ELSE NoRule

BroadUV(film, goals) ==
    IF WantsUV(goals) /\ NumOrZero(film.uv_rejection_pct) >= 85
    THEN Rule(50, "Broadened: high UV rejection") ELSE NoRule

BroadSecurity(film, goals) ==
    IF Contains(goals, "security") /\ IsSecurityish(film)
    THEN Rule(500, "Broadened: security-oriented line") ELSE NoRule

BroadRules(film, ctx) ==
    << BroadSolar(film, ctx.goals), BroadPrivacy(film, ctx.goals),
       BroadUV(film, ctx.goals), BroadSecurity(film, ctx.goals) >>

Broaden(x, ctx) ==
    Scored(x.film, SumRules([score |-> x.score, why |-> x.why], BroadRules(x.film, ctx)))

(* String(f.sku || f.product_name || f.name) *)
DedupeKey(x) == OrStr(x.film.sku, OrStr(x.film.product_name, OrStr(x.film.name, "undefined")))

(* finalSorted.filter: the first entry of every key *)
UniqueByKey(sorted) ==
    SelectSeq([i \in 1..Len(sorted) |-> [x |-> sorted[i], i |-> i]],
              LAMBDA e : \A j \in 1..(e.i - 1) : DedupeKey(sorted[j]) # DedupeKey(e.x))

(* the caller's array had the sort been applied to it directly *)
ArraySortedInPlace(filmsArr, sortedBase) ==
    Seq1([i \in 1..Len(sortedBase) |-> JRec(sortedBase[i].film)])

(* The caller's array once scoreFilms has run.  baseScored is built by     *)
(* filmsArr.map, a new array, and it is baseScored that the sort reorders  *)
(* in place: the array handed in keeps its order.                          *)
ArrayAfterScoring(filmsArr, sortedBase) == filmsArr

baseScored(filmsArr, ctx) ==
    Seq1([i \in 1..Len(filmsArr) |-> BaseScore(AsFilm(filmsArr[i]), ctx)])

broadened(scored, ctx) ==
    Seq1([i \in 1..Len(scored) |-> Broaden(scored[i], ctx)])

(* the broadened records, best five, first of every key *)
unique(scored, ctx) ==
    UniqueByKey(Take(SortByScoreDesc(broadened(scored, ctx)), 5))

ProjectAll(scored) == [i \in 1..Len(scored) |-> Project(scored[i])]

ProjectUnique(entries) == [i \in 1..Len(entries) |-> Project(entries[i].x)]

(* from the sufficiency test on: the strict top three, or the broadened    *)
(* pass over the records in strict order                                   *)
ScoreSorted(filmsArr, sortedBase, ctx) ==
    IF Sufficient(sortedBase)
    THEN [threw |-> FALSE, out |-> ProjectAll(Take(sortedBase, 3)),
          passes |-> <<"strict">>,
          films |-> ArrayAfterScoring(filmsArr, sortedBase)]
    ELSE [threw |-> FALSE, out |-> ProjectUnique(unique(sortedBase, ctx)),
          passes |-> <<"strict", "broadened">>,
          films |-> ArrayAfterScoring(filmsArr, sortedBase)]

(* scoreFilms on the normalised array; film.series of a null entry throws *)
ScoreArray(filmsArr, ctx) ==
    IF filmsArr = <<>>
    THEN [threw |-> FALSE, out |-> <<>>, passes |-> <<>>, films |-> filmsArr]
    ELSE IF \E i \in 1..Len(filmsArr) : filmsArr[i].t = "null"
    THEN [threw |-> TRUE, out |-> <<>>, passes |-> <<>>, films |-> filmsArr]
    ELSE ScoreSorted(filmsArr, SortByScoreDesc(baseScored(filmsArr, ctx)), ctx)

(* scoreFilms: [threw, out, passes, films]; passes lists the passes that   *)
(* ran, films is the normalised array as the call leaves it                *)
scoreFilms(filmsDoc, ctx) == ScoreArray(normalizeFilms(filmsDoc), ctx)

----------------------------------------------------------------------------
(* tools/recommendFilms: expandToProducts *)

(* b.toLowerCase().trim() on the brands of the universe *)
LowerBrand(b) ==
    CASE b = "3M" -> "3m"
      [] b = "3M Window Film" -> "3m window film"
      [] b = "LLumar" -> "llumar"
      [] b = "Huper Optik" -> "huper optik"
      [] b = "Solar Gard" -> "solar gard"
      [] b = "XPEL" -> "xpel"
      [] b = "Madico" -> "madico"
      [] b = "Unknown" -> "unknown"
      [] OTHER -> b

brandAlias(b) ==
    LET n == LowerBrand(b) IN
    IF n = "" THEN n ELSE IF n = "3m window film" THEN "3m" ELSE n

budgetTierRank(t) ==
    CASE t = "premium" -> 3 [] t = "mid" -> 2 [] t = "value" -> 1 [] OTHER -> 0

budgetAffinity(t, wanted) ==
    IF wanted = "" THEN 0
    ELSE LET delta == Abs(budgetTierRank(t) - budgetTierRank(wanted)) IN
         IF delta = 0 THEN 3 ELSE IF delta = 1 THEN 1 ELSE -1


vltScore(vlt, pref) ==
    IF vlt = NoNum THEN 0
    ELSE IF pref = "brighter" THEN vlt
    ELSE IF pref = "darker" THEN 100 - vlt
    ELSE -Abs(50 - vlt)

whyMatchCount(film, goals) ==
    LET uc == film.use_cases
        B(cond) == IF cond THEN 1 ELSE 0
    IN IF goals = <<>> THEN 0
       ELSE B((Contains(goals, "heat") \/ Contains(goals, "glare"))
                /\ (film.category = "solar_control" \/ Contains(uc, "heat")
                      \/ Contains(uc, "glare")))
          + B(Contains(goals, "uv")
                /\ (Contains(uc, "uv") \/ film.category = "solar_control"))
          + B(Contains(goals, "privacy")
                /\ (Contains(uc, "privacy") \/ film.category = "privacy"))
          + B(Contains(goals, "security")
                /\ (Contains(uc, "security") \/ film.category = "security"))
          + B(Contains(goals, "decorative")
                /\ (Contains(uc, "decorative") \/ film.category = "decorative"))

matchesGoal(film, goals) ==
    \/ goals = <<>>
    \/ ((Contains(goals, "heat") \/ Contains(goals, "glare"))
          /\ film.category = "solar_control")
    \/ \E i \in 1..Len(film.use_cases) : Contains(goals, film.use_cases[i])

matchesContext(film, ctx) ==
    /\ ctx.property_type # "" =>
          ~(Len(film.best_for) > 0 /\ ~Contains(film.best_for, ctx.property_type))
    /\ ctx.install_location # "" =>
          /\ ~(Len(film.install_location) > 0
                 /\ ~Contains(film.install_location, ctx.install_location))
          /\ ~(ctx.install_location = "exterior" /\ film.exterior_ok = "false")

(* goalWeight: the whole-number boosts, then vltScore / 10, then the      *)
(* budget affinity, added in this order as doubles (1 is 500 units)        *)
goalWeight(film, goals, ctx) ==
    LET B(cond, w) == IF cond THEN 500 * w ELSE 0
        boosts ==
            B(film.category = "solar_control"
                /\ (Contains(goals, "heat") \/ Contains(goals, "glare")), 4)
          + B(Contains(goals, "uv")
                /\ (film.category = "solar_control" \/ Contains(film.use_cases, "uv")), 2)
          + B(Contains(goals, "privacy") /\ Contains(film.use_cases, "privacy"), 3)
          + B(Contains(goals, "security") /\ film.category = "security", 4)
          + B(Contains(goals, "decorative") /\ film.category = "decorative", 3)
        withVlt == FAdd(Dbl(boosts),
                        Dbl(50 * vltScore(film.visible_light_transmission,
                                          ctx.vlt_preference)))
    IN FAdd(withVlt, Dbl(500 * budgetAffinity(film.price_tier, ctx.budget_level)))

(* clos: distance of the transmission from the preference target *)
Closeness(film, vlt_preference) ==
    LET v == film.visible_light_transmission
        pref == OrStr(vlt_preference, "neutral")
    IN IF v = NoNum THEN 999
       ELSE IF pref = "brighter" THEN Abs(100 - v)
       ELSE IF pref = "darker" THEN Abs(v)
       ELSE Abs(50 - v)

(* localeCompare on `${brand}|${product_name}`: the brands and the product *)
(* names of the universe in collation order (the space of "3M Window Film" *)
(* sorts before the "|" that follows "3M")                                 *)
BrandOrder ==
    <<"", "3M Window Film", "3M", "Huper Optik", "LLumar", "Madico", "Solar Gard",
      "Unknown", "XPEL">>

NameOrder ==
    <<"", "a", "Affinity 30", "Armorcoat 8 Mil", "b", "Ceramic 40", "Frost Matte",
      "Graffiti Shield 6 Mil", "Night Vision 15", "Optivision 15", "Prestige 70",
      "Prime XR 35", "Security S70 7 Mil", "Select Drei", "Silver 20", "Sunscape 28",
      "Unknown", "Vista V30", "Vista V45">>

IndexOf(s, x) == CHOOSE i \in 1..Len(s) : s[i] = x

(* the comparator of tierPreferred.sort as a key, smaller first *)
WeightKey(w) == << -(w.u), -(w.r) >>

RankKey(film, goals, ctx) ==
    WeightKey(goalWeight(film, goals, ctx))
        \o << -whyMatchCount(film, goals),
              Closeness(film, ctx.vlt_preference),
              IndexOf(BrandOrder, film.brand),
              IndexOf(NameOrder, film.product_name) >>

(* pool: the catalog positions passing both filters, in catalog order *)
Pool(catalog, goals, ctx) ==
    SelectSeq([i \in 1..Len(catalog) |-> i],
              LAMBDA i : matchesContext(catalog[i], ctx) /\ matchesGoal(catalog[i], goals))

(* the shortlist size had the cut been written one too long *)
NeedOffByOne == 5 + 1

Need == 5

TierDistance(film, wantBudget) ==
    Abs(budgetTierRank(film.price_tier) - budgetTierRank(wantBudget))

(* tierPreferred had the backfill been taken in catalog order *)
TierPreferredUnsorted(catalog, pool, wantBudget) ==
    LET exact == SelectSeq(pool, LAMBDA i :
                    wantBudget # "" => catalog[i].price_tier = wantBudget)
    IN IF Len(exact) < 5
       THEN exact \o Take(SelectSeq(pool, LAMBDA i : ~Contains(exact, i)),
                          5 - Len(exact))
       ELSE exact

(* tierPreferred after the backfill *)
TierPreferred(catalog, pool, wantBudget) ==
    LET exact == SelectSeq(pool, LAMBDA i :
                    wantBudget # "" => catalog[i].price_tier = wantBudget)
    IN IF Len(exact) < Need
       THEN LET rest == SelectSeq(pool, LAMBDA i : ~Contains(exact, i))
                backfill == StableSortBy(rest,
                    [k \in 1..Len(rest) |-> <<TierDistance(catalog[rest[k]], wantBudget)>>])
            IN exact \o Take(backfill, Need - Len(exact))
       ELSE exact

(* the brand walk: picks so far, brands seen so far *)
RECURSIVE BrandWalk(_, _, _, _)
BrandWalk(catalog, ranked, picks, seenBrand) ==
    IF ranked = <<>> \/ Len(picks) >= Need THEN picks
    ELSE LET b == brandAlias(catalog[Head(ranked)].brand) IN
         IF b = "" THEN BrandWalk(catalog, Tail(ranked), picks, seenBrand)
         ELSE IF b \notin seenBrand \/ Len(picks) >= 3
              THEN BrandWalk(catalog, Tail(ranked), Append(picks, Head(ranked)),
                             seenBrand \cup {b})
              ELSE BrandWalk(catalog, Tail(ranked), picks, seenBrand)

(* str.toLowerCase() on the series and product names of the universe *)
LowerName(str) ==
    CASE str = "Affinity" -> "affinity"
      [] str = "Affinity 30" -> "affinity 30"
      [] str = "Amber 81" -> "amber 81"
      [] str = "Anti-Vandal" -> "anti-vandal"
      [] str = "Armorcoat 8 Mil" -> "armorcoat 8 mil"
      [] str = "Armorcoat Safety" -> "armorcoat safety"
      [] str = "Ceramic" -> "ceramic"
      [] str = "Ceramic 15" -> "ceramic 15"
      [] str = "Ceramic 40" -> "ceramic 40"
      [] str = "DL 05G SR CDF - Deluxe" -> "dl 05g sr cdf - deluxe"
      [] str = "Frost Matte" -> "frost matte"
      [] str = "Graffiti Shield 6 Mil" -> "graffiti shield 6 mil"
      [] str = "Night Vision" -> "night vision"
      [] str = "Night Vision 15" -> "night vision 15"
      [] str = "OSW Exterior" -> "osw exterior"
      [] str = "Optivision 15" -> "optivision 15"
      [] str = "Prestige" -> "prestige"
      [] str = "Prestige 70" -> "prestige 70"
      [] str = "Prestige Exterior" -> "prestige exterior"
      [] str = "Prime" -> "prime"
      [] str = "Prime XR 35" -> "prime xr 35"
      [] str = "Quantum Silver Quantum 10" -> "quantum silver quantum 10"
      [] str = "Safety & Security" -> "safety & security"
      [] str = "Security S70 7 Mil" -> "security s70 7 mil"
      [] str = "Select" -> "select"
      [] str = "Select Drei" -> "select drei"
      [] str = "Silver 20" -> "silver 20"
      [] str = "Sunscape" -> "sunscape"
      [] str = "Sunscape 28" -> "sunscape 28"
      [] str = "UV Gard" -> "uv gard"
      [] str = "Unknown" -> "unknown"
      [] str = "Vista" -> "vista"
      [] str = "Vista V30" -> "vista v30"
      [] str = "Vista V45" -> "vista v45"
      [] OTHER -> str

(* f.sku || the lower-cased brand, series and product_name joined by "|" *)
UniqueKey(film) ==
    OrStr(film.sku,
          LowerBrand(film.brand) \o "|" \o LowerName(film.series)
              \o "|" \o LowerName(film.product_name))

FirstOfKey(catalog, picks) ==
    SelectSeq([k \in 1..Len(picks) |-> [i |-> picks[k], k |-> k]],
              LAMBDA e : \A j \in 1..(e.k - 1) :
                  UniqueKey(catalog[picks[j]]) # UniqueKey(catalog[e.i]))

prettyCase(str) ==
    CASE str = "solar_control" -> "Solar Control"
      [] str = "privacy" -> "Privacy"
      [] str = "security" -> "Security"
      [] str = "decorative" -> "Decorative"
      [] str = "anti_graffiti" -> "Anti Graffiti"
      [] OTHER -> str

installLabel(film) ==
    IF film.exterior_ok = "true" \/ Contains(film.install_location, "exterior")
    THEN "Exterior\\u2011capable" ELSE "Interior"

(* [a, b, c].filter(Boolean).join(sep).  A character beyond Latin-1 is    *)
(* written in a string as its JSON escape: the bullet U+2022, the          *)
(* non-breaking hyphen U+2011, the en dash U+2013 and the less-or-equal    *)
(* sign U+2264.                                                            *)
JoinNonEmpty(parts, sep) ==
    LET kept == SelectSeq(parts, LAMBDA x : x # "")
        J[k \in 0..Len(kept)] ==
            IF k = 0 THEN "" ELSE IF k = 1 THEN kept[1] ELSE J[k - 1] \o sep \o kept[k]
    IN J[Len(kept)]

Enriched(film) ==
    [film |-> film,
     title |-> JoinNonEmpty(<<OrStr(film.brand, "Unknown"), film.series,
                              film.product_name>>, " \\u2022 "),
     subtitle |-> JoinNonEmpty(<<prettyCase(film.category), installLabel(film)>>,
                               " \\u2022 ")]


(* tierPreferred.sort *)
Ranked(catalog, tierPreferred, goals, ctx) ==
    StableSortBy(tierPreferred,
        [k \in 1..Len(tierPreferred) |-> RankKey(catalog[tierPreferred[k]], goals, ctx)])

EnrichAll(catalog, final) == [k \in 1..Len(final) |-> Enriched(catalog[final[k].i])]

(* the expansion had it kept only the records the scorer returned *)
expandScoredOnly(recs, catalog, goals, ctx) ==
    LET pool == SelectSeq(Pool(catalog, goals, ctx),
                          LAMBDA i : \E k \in 1..Len(recs) : recs[k].sku = catalog[i].sku)
        tierPreferred == TierPreferred(catalog, pool, ctx.budget_level)
        ranked == Ranked(catalog, tierPreferred, goals, ctx)
        byBrandPick == BrandWalk(catalog, ranked, <<>>, {})
    IN EnrichAll(catalog, Take(FirstOfKey(catalog, byBrandPick), Need))

expandToProducts(recs, catalog, goals, ctx) ==
    LET pool == Pool(catalog, goals, ctx)
        tierPreferred == TierPreferred(catalog, pool, ctx.budget_level)
        ranked == Ranked(catalog, tierPreferred, goals, ctx)
        byBrandPick == BrandWalk(catalog, ranked, <<>>, {})
    IN EnrichAll(catalog, Take(FirstOfKey(catalog, byBrandPick), Need))

----------------------------------------------------------------------------
(* tools/recommendFilms: the recommend_films handler *)

AsDocument(catalog) == JList(Seq1([i \in 1..Len(catalog) |-> JRec(catalog[i])]))

(* the film records of an array of record entries *)
AsCatalog(filmsArr) == Seq1([i \in 1..Len(filmsArr) |-> filmsArr[i].f])

ScoreContext(property_type, goals, vlt_preference, install_location, budget_level) ==
    [property_type |-> property_type, goals |-> goals,
     vlt_preference |-> vlt_preference, install_location |-> install_location,
     budget_level |-> budget_level]

(* the arguments of the handler; "" stands for an absent field *)
RecommendInput(pt, goals, app, vlt, budget, loc, sun, orient) ==
    [property_type |-> pt, goals |-> goals, application |-> app,
     vlt_preference |-> vlt, budget_level |-> budget, install_location |-> loc,
     sun_exposure |-> sun, orientation |-> orient]

(* the check without its budget line *)
MissingButBudget(input) ==
    (IF input.application = "" THEN <<"application (e.g. living_room, office)">> ELSE <<>>)
    \o (IF input.vlt_preference = ""
        THEN <<"brightness preference (brighter/neutral/darker)">> ELSE <<>>)
    \o (IF input.install_location = ""
        THEN <<"install location (interior/exterior)">> ELSE <<>>)
    \o (IF input.sun_exposure = "" /\ input.orientation = ""
        THEN <<"sun exposure (low/medium/high) or orientation (north/east/south/west)">>
        ELSE <<>>)

Missing(input) ==
    (IF input.application = "" THEN <<"application (e.g. living_room, office)">> ELSE <<>>)
    \o (IF input.vlt_preference = ""
        THEN <<"brightness preference (brighter/neutral/darker)">> ELSE <<>>)
    \o (IF input.budget_level = "" THEN <<"budget (value/mid/premium)">> ELSE <<>>)
    \o (IF input.install_location = ""
        THEN <<"install location (interior/exterior)">> ELSE <<>>)
    \o (IF input.sun_exposure = "" /\ input.orientation = ""
        THEN <<"sun exposure (low/medium/high) or orientation (north/east/south/west)">>
        ELSE <<>>)

(* the context the handler hands to expandToProducts *)
ExpandContext(input) ==
    [property_type |-> input.property_type,
     install_location |-> input.install_location,
     vlt_preference |-> input.vlt_preference,
     budget_level |-> input.budget_level]

(* a core function a call has run, with the goals or the area handed to it *)
Invocation(fn, goals, square_feet) ==
    [fn |-> fn, goals |-> goals, square_feet |-> square_feet]

(* the handler once scoreFilms has answered with recs *)
RecommendFrom(recs, input) ==
    LET after == AsCatalog(recs.films)
        enriched == expandToProducts(recs.out, after, input.goals,
                                     ExpandContext(input))
    IN [threw |-> recs.threw,
        out |-> [recommendations |-> IF recs.threw THEN <<>> ELSE enriched,
                 missing |-> <<>>, criteria |-> TRUE],
        passes |-> recs.passes, films |-> after,
        invoked |-> <<Invocation("scoreFilms", input.goals, NoNum)>>
                    \o (IF recs.threw THEN <<>>
                        ELSE <<Invocation("expandToProducts", input.goals, NoNum)>>)]

recommendFilmsHandler(catalog, input) ==
    IF Missing(input) # <<>>
    THEN [threw |-> FALSE,
          out |-> [recommendations |-> <<>>, missing |-> Missing(input),
                   criteria |-> FALSE],
          passes |-> <<>>, films |-> catalog, invoked |-> <<>>]
    ELSE RecommendFrom(scoreFilms(AsDocument(catalog),
                           ScoreContext(input.property_type, input.goals, "", "", "")),
                       input)

----------------------------------------------------------------------------
(* Free-text application entries.  A text is the sequence of its           *)
(* characters, so that the string operations of the code are computed,     *)
(* not tabulated.  The empty text stands for an absent or empty entry.     *)

UpperCase ==
    <<"A", "B", "C", "D", "E", "F", "G", "H", "I", "J", "K", "L", "M", "N", "O", "P", "Q", "R", "S", "T", "U", "V", "W", "X", "Y", "Z">>

LowerCase ==
    <<"a", "b", "c", "d", "e", "f", "g", "h", "i", "j", "k", "l", "m", "n", "o", "p", "q", "r", "s", "t", "u", "v", "w", "x", "y", "z">>

(* The characters beyond ASCII.  The texts are Unicode and the code's      *)
(* toLowerCase, \p{L}, \s and trim go by the Unicode classes; the          *)
(* universe of characters here is ASCII, Latin-1 and the characters named  *)
(* below, each class as Unicode has it.  A character beyond Latin-1, or    *)
(* one that does not print, is written as its JSON escape.                 *)

(* the capitals of Latin-1, the capital Y with diaeresis U+0178, the Greek *)
(* capital delta U+0394, the Cyrillic capital zhe U+0416 and the Kelvin    *)
(* sign U+212A, whose lower case is the ASCII k                            *)
UpperOther ==
    <<"À", "Á", "Â", "Ã", "Ä", "Å", "Æ", "Ç", "È", "É", "Ê", "Ë", "Ì", "Í",
      "Î", "Ï", "Ð", "Ñ", "Ò", "Ó", "Ô", "Õ", "Ö", "Ø", "Ù", "Ú", "Û", "Ü",
      "Ý", "Þ", "\\u0178", "\\u0394", "\\u0416", "\\u212a">>

LowerOther ==
    <<"à", "á", "â", "ã", "ä", "å", "æ", "ç", "è", "é", "ê", "ë", "ì", "í",
      "î", "ï", "ð", "ñ", "ò", "ó", "ô", "õ", "ö", "ø", "ù", "ú", "û", "ü",
      "ý", "þ", "ÿ", "\\u03b4", "\\u0436", "k">>

(* letters toLowerCase leaves as they are and that are no lower case of a  *)
(* capital above: the sharp s, the ordinal indicators, the micro sign, and *)
(* the Han character U+4E2D, which has no case                             *)
OtherLetters == {"ß", "ª", "º", "µ", "\\u4e2d"}

UpperLetters == UpperCase \o UpperOther

LowerLetters == LowerCase \o LowerOther

(* String.prototype.toLowerCase, one character: every cased letter is      *)
(* lowered                                                                 *)
ToLowerChar(c) ==
    IF \E i \in 1..Len(UpperLetters) : UpperLetters[i] = c
    THEN LowerLetters[CHOOSE i \in 1..Len(UpperLetters) : UpperLetters[i] = c]
    ELSE c

ToLowerCase(text) == [i \in 1..Len(text) |-> ToLowerChar(text[i])]

(* \p{L} with the u flag: the letters of every script; the multiplication  *)
(* and division signs, the combining acute accent U+0301 and the other     *)
(* signs of Latin-1 are none                                               *)
IsLetter(c) ==
    \/ \E i \in 1..Len(LowerLetters) : LowerLetters[i] = c \/ UpperLetters[i] = c
    \/ c \in OtherLetters

(* [0-9] *)
IsDigit(c) == c \in {"0", "1", "2", "3", "4", "5", "6", "7", "8", "9"}

(* \w, the word characters \b goes by in a pattern without the u flag:    *)
(* ASCII letters, digits and the underscore                                *)
IsWordChar(c) ==
    \/ \E i \in 1..Len(LowerCase) : LowerCase[i] = c \/ UpperCase[i] = c
    \/ IsDigit(c)
    \/ c = "_"

(* \s, and what trim strips: tab, line feed, vertical tab, form feed,      *)
(* carriage return, space, no-break space, the byte order mark, the line   *)
(* and paragraph separators and the other space separators of Unicode      *)
WhiteSpace ==
    {" ", "\t", "\n", "\r", "\f", "\\u000b", "\\u00a0", "\\u1680", "\\u2000",
     "\\u2001", "\\u2002", "\\u2003", "\\u2004", "\\u2005", "\\u2006",
     "\\u2007", "\\u2008", "\\u2009", "\\u200a", "\\u2028", "\\u2029",
     "\\u202f", "\\u205f", "\\u3000", "\\ufeff"}

IsWhiteSpace(c) == c \in WhiteSpace

(* String.prototype.trim *)
RECURSIVE TrimStart(_)
TrimStart(text) ==
    IF text # <<>> /\ IsWhiteSpace(Head(text)) THEN TrimStart(Tail(text)) ELSE text

RECURSIVE TrimEnd(_)
TrimEnd(text) ==
    IF text # <<>> /\ IsWhiteSpace(text[Len(text)])
    THEN TrimEnd(SubSeq(text, 1, Len(text) - 1)) ELSE text

Trim(text) == TrimEnd(TrimStart(text))

(* replace(/[0-9]+/g, " "): every run of digits becomes one space *)
DigitRunsToSpace(text) ==
    LET first == SelectSeq([i \in 1..Len(text) |-> [c |-> text[i], i |-> i]],
                           LAMBDA e : ~(IsDigit(e.c) /\ e.i > 1 /\ IsDigit(text[e.i - 1])))
    IN  [i \in 1..Len(first) |-> IF IsDigit(first[i].c) THEN " " ELSE first[i].c]

(* replace(/[0-9]+/g, " ").replace(/[^\p{L}\s]/gu, " "): after the digit   *)
(* runs, every character that is neither a letter nor white space becomes  *)
(* a space; white space is kept as it is                                   *)
StripNonLetters(text) ==
    LET t == DigitRunsToSpace(text) IN
    [i \in 1..Len(t) |-> IF IsLetter(t[i]) \/ IsWhiteSpace(t[i]) THEN t[i] ELSE " "]

(* replace(/\s+/g, " "): every run of white space becomes one space *)
CollapseSpaces(text) ==
    LET first == SelectSeq([i \in 1..Len(text) |-> [c |-> text[i], i |-> i]],
                           LAMBDA e : ~(IsWhiteSpace(e.c) /\ e.i > 1
                                          /\ IsWhiteSpace(text[e.i - 1])))
    IN  [i \in 1..Len(first) |-> IF IsWhiteSpace(first[i].c) THEN " " ELSE first[i].c]

Cleaned(input) == Trim(CollapseSpaces(StripNonLetters(ToLowerCase(input))))

(* String.prototype.includes *)
Includes(text, needle) ==
    \E i \in 0..(Len(text) - Len(needle)) :
        SubSeq(text, i + 1, i + Len(needle)) = needle

(* a match of /\b(?:and|&|,)\b/ at position i: in a cleaned text only the  *)
(* word "and" between word boundaries is left to match, and a letter      *)
(* outside ASCII is no word character                                      *)
SplitsAt(text, i) ==
    /\ i + 2 <= Len(text)
    /\ SubSeq(text, i, i + 2) = <<"a", "n", "d">>
    /\ (i = 1 \/ ~IsWordChar(text[i - 1]))
    /\ (i + 3 > Len(text) \/ ~IsWordChar(text[i + 3]))

(* split at every match, each part trimmed, the empty parts filtered out *)
RECURSIVE SplitParts(_)
SplitParts(text) ==
    IF \E i \in 1..Len(text) : SplitsAt(text, i)
    THEN LET i == CHOOSE k \in 1..Len(text) :
                      SplitsAt(text, k) /\ \A j \in 1..(k - 1) : ~SplitsAt(text, j)
             part == Trim(SubSeq(text, 1, i - 1))
         IN  (IF part = <<>> THEN <<>> ELSE <<part>>)
                 \o SplitParts(SubSeq(text, i + 3, Len(text)))
    ELSE IF Trim(text) = <<>> THEN <<>> ELSE <<Trim(text)>>

(* the needles of normalizeApplicationText, first match wins *)
PRIORITY ==
    << [needle |-> <<"l", "i", "v", "i", "n", "g", " ", "r", "o", "o", "m">>,
        mapped |-> "living_room"],
       [needle |-> <<"f", "a", "m", "i", "l", "y", " ", "r", "o", "o", "m">>,
        mapped |-> "living_room"],
       [needle |-> <<"l", "i", "v", "i", "n", "g">>,
        mapped |-> "living_room"],
       [needle |-> <<"b", "e", "d", "r", "o", "o", "m">>,
        mapped |-> "bedroom"],
       [needle |-> <<"l", "o", "f", "t">>,
        mapped |-> "bedroom"],
       [needle |-> <<"k", "i", "t", "c", "h", "e", "n">>,
        mapped |-> "kitchen"],
       [needle |-> <<"b", "a", "t", "h", "r", "o", "o", "m">>,
        mapped |-> "bathroom"],
       [needle |-> <<"o", "f", "f", "i", "c", "e">>,
        mapped |-> "office"],
       [needle |-> <<"c", "o", "n", "f", "e", "r", "e", "n", "c", "e", " ", "r", "o", "o", "m">>,
        mapped |-> "conference_room"],
       [needle |-> <<"c", "o", "n", "f", "e", "r", "e", "n", "c", "e">>,
        mapped |-> "conference_room"],
       [needle |-> <<"s", "t", "o", "r", "e", "f", "r", "o", "n", "t">>,
        mapped |-> "storefront"],
       [needle |-> <<"l", "o", "b", "b", "y">>,
        mapped |-> "lobby"],
       [needle |-> <<"s", "e", "r", "v", "e", "r", " ", "r", "o", "o", "m">>,
        mapped |-> "server_room"],
       [needle |-> <<"s", "e", "r", "v", "e", "r">>,
        mapped |-> "server_room"],
       [needle |-> <<"w", "a", "r", "e", "h", "o", "u", "s", "e">>,
        mapped |-> "warehouse"],
       [needle |-> <<"o", "t", "h", "e", "r">>,
        mapped |-> "other"] >>


(* "" stands for undefined *)
normalizeApplicationText(input) ==
    IF input = <<>> THEN ""
    ELSE LET cleaned == Cleaned(input)
             parts == SplitParts(cleaned)
             InPart(k) == \E p \in 1..Len(parts) : Includes(parts[p], PRIORITY[k].needle)
             InWhole(k) == Includes(cleaned, PRIORITY[k].needle)
         IN  IF \E k \in 1..Len(PRIORITY) : InPart(k)
             THEN PRIORITY[CHOOSE k \in 1..Len(PRIORITY) :
                               InPart(k) /\ \A j \in 1..(k - 1) : ~InPart(j)].mapped
             ELSE IF \E k \in 1..Len(PRIORITY) : InWhole(k)
             THEN PRIORITY[CHOOSE k \in 1..Len(PRIORITY) :
                               InWhole(k) /\ \A j \in 1..(k - 1) : ~InWhole(j)].mapped
             ELSE "other"


----------------------------------------------------------------------------
(* ui/intakePanel: intakeToRecommendArgs *)

(* the keys of the bucket map with the values they map to *)
ApplicationMap ==
    << [key |-> <<"l", "i", "v", "i", "n", "g", " ", "r", "o", "o", "m">>,
        value |-> "living_room"],
       [key |-> <<"b", "e", "d", "r", "o", "o", "m">>,
        value |-> "bedroom"],
       [key |-> <<"k", "i", "t", "c", "h", "e", "n">>,
        value |-> "kitchen"],
       [key |-> <<"b", "a", "t", "h", "r", "o", "o", "m">>,
        value |-> "bathroom"],
       [key |-> <<"o", "f", "f", "i", "c", "e">>,
        value |-> "office"],
       [key |-> <<"c", "o", "n", "f", "e", "r", "e", "n", "c", "e", " ", "r", "o", "o", "m">>,
        value |-> "conference_room"],
       [key |-> <<"s", "t", "o", "r", "e", "f", "r", "o", "n", "t">>,
        value |-> "storefront"],
       [key |-> <<"l", "o", "b", "b", "y">>,
        value |-> "lobby"],
       [key |-> <<"s", "e", "r", "v", "e", "r", " ", "r", "o", "o", "m">>,
        value |-> "server_room"],
       [key |-> <<"w", "a", "r", "e", "h", "o", "u", "s", "e">>,
        value |-> "warehouse"],
       [key |-> <<"o", "t", "h", "e", "r">>,
        value |-> "other"] >>

(* `t in map` also holds for the lower-case property names an object       *)
(* literal inherits; map[t] is then a function or the prototype object     *)
InheritedKeys ==
    << [key |-> <<"c", "o", "n", "s", "t", "r", "u", "c", "t", "o", "r">>,
        value |-> "[Function: Object]"],
       [key |-> <<"_", "_", "p", "r", "o", "t", "o", "_", "_">>,
        value |-> "[Object: null prototype] {}"] >>

MapEntries == ApplicationMap \o InheritedKeys

(* the application of the recommend arguments; "" stands for undefined *)
intakeToRecommendArgs(values) ==
    IF values.application # "" THEN values.application
    ELSE LET t == Trim(ToLowerCase(values.application_text)) IN
         IF \E k \in 1..Len(MapEntries) : MapEntries[k].key = t
         THEN MapEntries[CHOOSE k \in 1..Len(MapEntries) : MapEntries[k].key = t].value
         ELSE ""

ApplicationEnum ==
    {"living_room", "bedroom", "kitchen", "bathroom", "office", "conference_room",
     "storefront", "lobby", "server_room", "warehouse", "other"}

(* the free texts the intake calls are drawn from *)
ApplicationTexts ==
    { <<>>,
      (* "Kitchen" *)
      <<"K", "i", "t", "c", "h", "e", "n">>,
      (* "kitchen and living room" *)
      <<"k", "i", "t", "c", "h", "e", "n", " ", "a", "n", "d", " ", "l", "i", "v", "i", "n", "g", " ", "r", "o", "o", "m">>,
      (* " Server Room " *)
      <<" ", "S", "e", "r", "v", "e", "r", " ", "R", "o", "o", "m", " ">>,
      (* "2 bedrooms, loft" *)
      <<"2", " ", "b", "e", "d", "r", "o", "o", "m", "s", ",", " ", "l", "o", "f", "t">>,
      (* "garage" *)
      <<"g", "a", "r", "a", "g", "e">>,
      (* "Home office & den" *)
      <<"H", "o", "m", "e", " ", "o", "f", "f", "i", "c", "e", " ", "&", " ", "d", "e", "n">>,
      (* "constructor" *)
      <<"c", "o", "n", "s", "t", "r", "u", "c", "t", "o", "r">>,
      (* " __proto__" and a line feed *)
      <<" ", "_", "_", "p", "r", "o", "t", "o", "_", "_", "\n">>,
      (* a tab, "Kitchen" and a line feed *)
      <<"\t", "K", "i", "t", "c", "h", "e", "n", "\n">>,
      (* "familyéroom" *)
      <<"f", "a", "m", "i", "l", "y", "é", "r", "o", "o", "m">>,
      (* "LOFT É12" and a tab, "and", a line feed, "café" *)
      <<"L", "O", "F", "T", " ", "É", "1", "2", "\t", "a", "n", "d", "\n", "c", "a", "f", "é">>,
      (* the Kelvin sign, "ITCHEN" and a no-break space *)
      <<"\\u212a", "I", "T", "C", "H", "E", "N", "\\u00a0">>,
      (* "ÀTTIC", a carriage return, an em space, "Loft" and the Han U+4E2D *)
      <<"À", "T", "T", "I", "C", "\r", "\\u2003", "L", "o", "f", "t", "\\u4e2d">>,
      (* "living×room" *)
      <<"l", "i", "v", "i", "n", "g", "×", "r", "o", "o", "m">> }

----------------------------------------------------------------------------
(* tools/submitIntake: the submit_intake_panel handler *)

(* the arguments of the handler; "" and NoNum stand for absent fields *)
IntakeArgs(pt, goals, app, text, vlt, sq) ==
    [property_type |-> pt, goals |-> goals, application |-> app,
     application_text |-> text, vlt_preference |-> vlt, budget_level |-> "",
     install_location |-> "", sun_exposure |-> "", orientation |-> "",
     square_feet |-> sq]

(* the directions of the schema: orientation is one of them or an array of *)
(* them                                                                    *)
Orientations == {"north", "east", "south", "west"}

(* the same arguments with orientation given, as one direction or as an    *)
(* array of directions                                                     *)
Facing(args, orientation) == [args EXCEPT !.orientation = orientation]

(* Array.isArray(rawOri).  A text is a sequence of characters and no       *)
(* direction is one character long, so of the values the schema lets       *)
(* through only an array of directions is a sequence of directions; the    *)
(* empty text of an absent field is told apart by its length before this   *)
(* test is made.                                                           *)
IsOrientationArray(rawOri) == rawOri \in Seq(Orientations)

(* Array.isArray(rawOri) ? rawOri                                          *)
(*   : (typeof rawOri === "string" && rawOri ? [rawOri] : [])              *)
(* an array is taken as it is, one direction becomes an array of one, an   *)
(* absent orientation the empty array                                      *)
OrientationArray(rawOri) ==
    IF Len(rawOri) = 0 THEN <<>>
    ELSE IF IsOrientationArray(rawOri) THEN rawOri ELSE <<rawOri>>

(* recArgs: every absent field gets its default, absent goals become [] *)
RecArgs(args) ==
    RecommendInput(
        OrStr(args.property_type, "residential"),
        args.goals,
        OrStr(args.application,
              OrStr(normalizeApplicationText(args.application_text), "other")),
        OrStr(args.vlt_preference, "neutral"),
        OrStr(args.budget_level, "mid"),
        OrStr(args.install_location, "interior"),
        OrStr(args.sun_exposure, "medium"),
        OrientationArray(args.orientation))

CountRecs(r) == Len(r.out.recommendations)

HaveFew(r) == CountRecs(r) < 3

(* the first call of the recommend_films handler, straight with recArgs *)
FirstPass(catalog, recArgs) ==
    [rec |-> recommendFilmsHandler(catalog, recArgs)]

(* rec = haveFew(rec) || countRecs(r) > countRecs(rec) ? r : rec; passes  *)
(* stays that of the last scoreFilms call executed: a relaxed call that    *)
(* answers with its prompt calls scoreFilms not at all                     *)
RelaxWith(st, r) ==
    LET lastPasses == IF r.invoked = <<>> THEN st.rec.passes ELSE r.passes IN
    [rec |-> IF HaveFew(st.rec) \/ CountRecs(r) > CountRecs(st.rec)
             THEN [r EXCEPT !.invoked = st.rec.invoked \o r.invoked,
                            !.passes = lastPasses]
             ELSE [st.rec EXCEPT !.films = r.films,
                                 !.invoked = st.rec.invoked \o r.invoked,
                                 !.passes = lastPasses]]

(* one relax step: the handler is called again when rec has few records *)
Relax(st, relaxedArgs) ==
    IF HaveFew(st.rec)
    THEN RelaxWith(st, recommendFilmsHandler(st.rec.films, relaxedArgs))
    ELSE st

(* the arguments of the n-th relaxed call: without the brightness, then   *)
(* also without the location, then also with the application "other"      *)
RelaxedArgs(recArgs, n) ==
    IF n = 1 THEN [recArgs EXCEPT !.vlt_preference = ""]
    ELSE IF n = 2
    THEN [recArgs EXCEPT !.vlt_preference = "", !.install_location = ""]
    ELSE [recArgs EXCEPT !.vlt_preference = "", !.install_location = "",
                         !.application = "other"]

(* the handler run from its call to its return with no other call between *)
(* its awaits: the first pass and the three relax steps                    *)
RecommendWithRelaxing(catalog, recArgs) ==
    Relax(Relax(Relax(FirstPass(catalog, recArgs),
                      RelaxedArgs(recArgs, 1)),
                RelaxedArgs(recArgs, 2)),
          RelaxedArgs(recArgs, 3))

(* the estimate of the panel: the handler of estimate_price is called with *)
(* estArgs whenever square_feet is a number; either revision of the tool   *)
(* may be the one built in; either throws when it is loaded with a null    *)
(* films.json, and the panel's module imports it                           *)
IntakeEstimate(doc, revision, square_feet, property_type) ==
    IF doc.t = "null" THEN [threw |-> TRUE, out |-> <<>>]
    ELSE IF square_feet = NoNum THEN [threw |-> FALSE, out |-> [quotes |-> <<>>]]
    ELSE IF revision = "baseline"
    THEN estimatePriceBaseline(doc, square_feet, property_type, "")
    ELSE estimatePriceBySku(doc, square_feet, property_type, <<>>)

IntakeAnswer(st, est, args, recArgs, revision) ==
    [threw |-> st.rec.threw \/ est.threw,
     out |-> [recArgs |-> recArgs,
              estArgs |-> [square_feet |-> args.square_feet,
                           property_type |-> recArgs.property_type],
              recommendations |-> st.rec.out.recommendations,
              quotes |-> IF est.threw THEN <<>> ELSE est.out.quotes],
     passes |-> IF est.threw THEN <<>> ELSE st.rec.passes,
     films |-> st.rec.films,
     invoked |-> IF est.threw THEN <<>>
                 ELSE st.rec.invoked
                      \o (IF args.square_feet = NoNum
                          THEN <<>>
                          ELSE <<Invocation(IF revision = "baseline" THEN "estimatePrice"
                                            ELSE "calculatePricing",
                                            <<>>, args.square_feet)>>)]

submitIntakeHandler(catalog, doc, revision, args) ==
    IntakeAnswer(RecommendWithRelaxing(catalog, RecArgs(args)),
                 IntakeEstimate(doc, revision, args.square_feet,
                                OrStr(args.property_type, "residential")),
                 args, RecArgs(args), revision)

----------------------------------------------------------------------------
(* The inputs the calls are drawn from *)

PropertyTypes == {"residential", "commercial"}

GoalLists ==
    { <<"heat">>, <<"privacy">>, <<"security">>, <<"uv", "heat">>,
      <<"glare", "privacy">>, <<"decorative">> }

VltPreferences == {"brighter", "neutral", "darker"}
InstallLocations == {"interior", "exterior"}

(* the refinements of a complete request: brightness, budget, location *)
RecommendRefinements ==
    { <<"brighter", "premium", "interior">>, <<"neutral", "mid", "interior">>,
      <<"darker", "value", "interior">>, <<"neutral", "value", "exterior">>,
      <<"darker", "premium", "exterior">>, <<"brighter", "mid", "exterior">> }

(* every refinement field supplied *)
FullInputs ==
    { RecommendInput(pt, goals, "office", r[1], r[2], r[3], "high", "") :
        pt \in PropertyTypes, goals \in GoalLists, r \in RecommendRefinements }

(* some refinement fields absent *)
PartialInputs ==
    { RecommendInput("residential", <<"heat">>, app, vlt, budget, loc, so[1], so[2]) :
        app \in {"", "office"}, vlt \in {"", "neutral"}, budget \in {"", "mid"},
        loc \in {"", "interior"}, so \in {<<"", "">>, <<"", "south">>} }

RecommendInputs == FullInputs \cup PartialInputs

(* the refinements a direct scoreFilms call carries: none, one, or all *)
ScoreRefinements ==
    { <<"", "", "">>, <<"brighter", "", "">>, <<"neutral", "", "">>,
      <<"", "exterior", "">>, <<"", "interior", "mid">>,
      <<"darker", "exterior", "premium">> }

ScoreContexts ==
    { ScoreContext(pt, goals, r[1], r[2], r[3]) :
        pt \in PropertyTypes, goals \in GoalLists, r \in ScoreRefinements }

(* areas in ten-thousandths of a square foot: 10, 10.0025, 10.0075, 37.3   *)
(* and 200 sq ft.  At 14 dollars a foot 10.0025 sq ft cost 140.035 and     *)
(* 10.0075 sq ft cost 140.105, each half a cent between two amounts.       *)
Areas == {100000, 100025, 100075, 373000, 2000000}

SkuUniverse == {"a", "b", "x"}

RECURSIVE SeqsUpTo(_, _)
SeqsUpTo(S, n) ==
    IF n = 0 THEN {<<>>}
    ELSE LET shorter == SeqsUpTo(S, n - 1) IN
         shorter \cup {Append(q, x) : q \in {t \in shorter : Len(t) = n - 1}, x \in S}

SkuLists == SeqsUpTo(SkuUniverse, MaxSkus)

(* areas the input schemas refuse or let pass: 5 sq ft is below the        *)
(* minimum of estimate_price and a positive integer for the intake panel   *)
SmallAreas == {50000}

(* the intake calls: the free texts with and without the legacy enum, and  *)
(* the goals, property types, brightness and areas with the enum given     *)
IntakeInputs ==
    { IntakeArgs("", <<"heat">>, app, text, "", NoNum) :
        app \in {"", "office"}, text \in ApplicationTexts }
    \cup { IntakeArgs(pt, goals, "office", <<>>, vlt, sq) :
             pt \in {"", "commercial"}, goals \in {<<>>, <<"heat">>, <<"uv", "heat">>},
             vlt \in {"", "darker"}, sq \in {NoNum, 50000, 2000000} }

(* the intake calls that say which way the glass faces, with one          *)
(* direction and with an array of one and of two directions               *)
FacingOne ==
    { Facing(IntakeArgs("", <<"heat">>, "", <<>>, "", NoNum), "south") }

FacingArrays ==
    { Facing(args, orientation) :
        args \in { IntakeArgs("", <<"heat">>, "", <<>>, "", NoNum),
                   IntakeArgs("commercial", <<"heat">>, "office", <<>>, "darker", 2000000) },
        orientation \in {<<"south">>, <<"south", "west">>} }

(* recommend_films inputs without goals *)
NoGoalInputs ==
    { RecommendInput(pt, <<>>, "office", "neutral", "mid", "interior", "high", "") :
        pt \in PropertyTypes }

----------------------------------------------------------------------------
(* The state machine: the catalogs are read once, then calls are answered *)

DefaultBlocks == BlockWindow(1, 3, 2)

----------------------------------------------------------------------------
(* The preview page (App): the results carousel.  Indices count from 0 as  *)
(* in the code; "" stands for null, NoNum for no card scrolled to yet.     *)

SAMPLE_DESCRIPTION ==
    "heat \\u2022 glare \\u2022 residential \\u2022 living_room \\u2022 neutral look \\u2022 mid budget \\u2022 "
    \o "interior install \\u2022 high sun \\u2022 west facing \\u2022 180 sq ft \\u2022 Denver"

SAMPLE_CARDS ==
    << [brand |-> "Huper Optik", productName |-> "Ceramic 15"],
       [brand |-> "Llumar", productName |-> "DL 05G SR CDF - Deluxe"],
       [brand |-> "Madico", productName |-> "Amber 81"],
       [brand |-> "Madico", productName |-> "UV Gard"],
       [brand |-> "Solar Gard", productName |-> "Quantum Silver Quantum 10"] >>

(* the useState initial values; no timeout is pending and the strip has    *)
(* not been scrolled                                                       *)
InitialUi ==
    [cards |-> <<>>, activeIndex |-> 0, panelDescription |-> "", loading |-> FALSE,
     error |-> "", resultRaw |-> "", showJson |-> FALSE,
     timer |-> FALSE, scrolledTo |-> NoNum, event |-> "mount"]

Idle == [threw |-> FALSE, out |-> <<>>]

(* The handler of submit_intake_panel is async: it runs up to an await,    *)
(* is suspended there, and is resumed with the awaited answer later, and   *)
(* whatever the process is given to do in between runs in between.  Every  *)
(* call in flight has a slot holding its arguments, the await it is        *)
(* suspended at (pc), its rec so far (st), the answer it awaits, and       *)
(* whether anything else ran since it was called.                          *)
MaxInFlight == 2

Slots == 1..MaxInFlight

NoCall == [pc |-> "none"]

InFlight == {s \in Slots : inflight[s] # NoCall}

(* something else runs: every call in flight has been overlapped *)
Overlap(calls) ==
    [s \in Slots |-> IF calls[s] = NoCall THEN NoCall
                     ELSE [calls[s] EXCEPT !.overlapped = TRUE]]

Meanwhile == inflight' = Overlap(inflight)

Loaded ==
    /\ films = FlattenBlocks(productsData)
    /\ req = [op |-> "idle"]
    /\ resp = Idle
    /\ inflight = [s \in Slots |-> NoCall]
    /\ passes = <<>>
    /\ invoked = <<>>
    /\ ui = InitialUi

(* the product catalog varies, films.json is a plain list *)
InitCatalog ==
    /\ \E start \in 1..NBlocks, nb \in 0..MaxBlocks, cap \in 1..MaxPerBlock :
          productsData = BlockWindow(start, nb, cap)
    /\ filmsData = DefaultDocument
    /\ Loaded

(* films.json varies over the document shapes *)
InitDocument ==
    /\ productsData = DefaultBlocks
    /\ filmsData \in Documents
    /\ Loaded

Init == InitCatalog \/ InitDocument

(* req and resp hold the answer being written out: answers go out one at  *)
(* a time, and a handler without an await answers in one step             *)
IsIdle == req.op = "idle"

(* server.ts imports tools/estimatePrice, whose module-level films line    *)
(* reads filmsData.films: with films.json null the import throws, the body *)
(* of server.ts never runs and no tool is registered, so no tool call is   *)
(* ever taken; the library functions can still be called                   *)
ServerStarted == filmsData.t # "null"

Answer(r) == resp' = [threw |-> r.threw, out |-> r.out]

(* the response is delivered and the server waits for the next call *)
Return ==
    /\ req.op # "idle"
    /\ req' = [op |-> "idle"]
    /\ resp' = Idle
    /\ passes' = <<>>
    /\ invoked' = <<>>
    /\ UNCHANGED <<productsData, films, filmsData, inflight, ui>>

(* what the input schemas let through to the handlers: at least one goal  *)
(* for recommend_films, at least 10 sq ft for estimate_price, a positive   *)
(* whole number of sq ft, if any, for submit_intake_panel                  *)
RecommendSchemaAccepts(input) == Len(input.goals) >= 1

EstimateSchemaAccepts(square_feet) == square_feet >= 100000

IntakeSchemaAccepts(args) ==
    /\ args.square_feet = NoNum \/ (args.square_feet > 0 /\ args.square_feet % 10000 = 0)
    /\ Len(args.orientation) = 0 \/ IsOrientationArray(args.orientation)
                                            \/ args.orientation \in Orientations

(* arguments the schema of a tool refuses: the handler is not called *)
Refuse(tool, input) ==
    /\ req' = [op |-> "invalid_arguments", tool |-> tool, input |-> input]
    /\ resp' = Idle
    /\ passes' = <<>>
    /\ invoked' = <<>>
    /\ Meanwhile
    /\ UNCHANGED <<productsData, films, filmsData, ui>>

RejectRecommend(input) ==
    /\ IsIdle
    /\ ServerStarted
    /\ ~RecommendSchemaAccepts(input)
    /\ Refuse("recommend_films", input)

RejectEstimate(square_feet, property_type) ==
    /\ IsIdle
    /\ ServerStarted
    /\ ~EstimateSchemaAccepts(square_feet)
    /\ Refuse("estimate_price", [square_feet |-> square_feet,
                                 property_type |-> property_type])

RecommendFilms(input) ==
    /\ IsIdle
    /\ ServerStarted
    /\ RecommendSchemaAccepts(input)
    /\ \E r \in {recommendFilmsHandler(films, input)} :
       /\ req' = [op |-> "recommend_films", input |-> input]
       /\ passes' = r.passes
       /\ invoked' = r.invoked
       /\ Answer(r)
       /\ films' = r.films
       /\ Meanwhile
       /\ UNCHANGED <<productsData, filmsData, ui>>

(* scoreFilms over the product catalog *)
ScoreProducts(ctx) ==
    /\ IsIdle
    /\ \E r \in {scoreFilms(AsDocument(films), ctx)} :
       /\ req' = [op |-> "scoreFilms", source |-> "products", ctx |-> ctx]
       /\ passes' = r.passes
       /\ invoked' = <<Invocation("scoreFilms", ctx.goals, NoNum)>>
       /\ Answer(r)
       /\ films' = AsCatalog(r.films)
       /\ Meanwhile
       /\ UNCHANGED <<productsData, filmsData, ui>>

(* scoreFilms over films.json; a document that is itself the array is the *)
(* array the call works on                                                 *)
ScoreFilms(ctx) ==
    /\ IsIdle
    /\ \E r \in {scoreFilms(filmsData, ctx)} :
       /\ req' = [op |-> "scoreFilms", source |-> "films", ctx |-> ctx]
       /\ passes' = r.passes
       /\ invoked' = <<Invocation("scoreFilms", ctx.goals, NoNum)>>
       /\ Answer(r)
       /\ filmsData' = IF IsArray(filmsData) THEN JList(r.films) ELSE filmsData
       /\ Meanwhile
       /\ UNCHANGED <<productsData, films, ui>>

NormalizeFilms ==
    /\ IsIdle
    /\ req' = [op |-> "normalizeFilms"]
    /\ passes' = <<>>
    /\ invoked' = <<>>
    /\ Answer([threw |-> FALSE,
               out |-> [scoring |-> normalizeFilms(filmsData),
                        pricing |-> normalizeFilmsPricing(filmsData)]])
    /\ Meanwhile
    /\ UNCHANGED <<productsData, films, filmsData, ui>>

CalculatePricing(sku_list, area, property_type) ==
    /\ IsIdle
    /\ req' = [op |-> "calculatePricing", sku_list |-> sku_list, area |-> area,
               property_type |-> property_type]
    /\ passes' = <<>>
    /\ invoked' = <<Invocation("calculatePricing", <<>>, area)>>
    /\ Answer(calculatePricing(filmsData, sku_list, area, property_type))
    /\ Meanwhile
    /\ UNCHANGED <<productsData, films, filmsData, ui>>

EstimatePriceBySku(sku_list, square_feet, property_type) ==
    /\ IsIdle
    /\ ServerStarted
    /\ EstimateSchemaAccepts(square_feet)
    /\ req' = [op |-> "estimate_price_sku", sku_list |-> sku_list,
               square_feet |-> square_feet, property_type |-> property_type]
    /\ passes' = <<>>
    /\ invoked' = <<Invocation("calculatePricing", <<>>, square_feet)>>
    /\ Answer(estimatePriceBySku(filmsData, square_feet, property_type, sku_list))
    /\ Meanwhile
    /\ UNCHANGED <<productsData, films, filmsData, ui>>

(* the input schema holds square_feet and property_type only, so the      *)
(* validated input the handler is given carries no budget_level            *)
EstimatePrice(square_feet, property_type) ==
    /\ IsIdle
    /\ ServerStarted
    /\ EstimateSchemaAccepts(square_feet)
    /\ req' = [op |-> "estimate_price", square_feet |-> square_feet,
               property_type |-> property_type]
    /\ passes' = <<>>
    /\ invoked' = <<Invocation("estimatePrice", <<>>, square_feet)>>
    /\ Answer(estimatePriceBaseline(filmsData, square_feet, property_type, ""))
    /\ Meanwhile
    /\ UNCHANGED <<productsData, films, filmsData, ui>>

(* submit_intake_panel: the handler calls the handlers of recommend_films  *)
(* and estimate_price itself, not through their schemas, and awaits each.  *)
(* The call: recArgs and estArgs are built and the handler of              *)
(* recommend_films is called with recArgs; the panel awaits its answer.    *)
BeginIntake(args, revision) ==
    /\ ServerStarted
    /\ IntakeSchemaAccepts(args)
    /\ InFlight # Slots
    /\ \E r \in {recommendFilmsHandler(films, RecArgs(args))} :
       LET s == CHOOSE free \in Slots \ InFlight :
                    \A other \in Slots \ InFlight : free <= other
       IN
       /\ inflight' = [Overlap(inflight) EXCEPT
                          ![s] = [pc |-> "first", args |-> args, revision |-> revision,
                                  st |-> <<>>, awaited |-> r, overlapped |-> FALSE]]
       /\ films' = r.films
       /\ UNCHANGED <<productsData, filmsData, req, resp, passes, invoked, ui>>

(* rec once the awaited answer is assigned: the first answer as it is, a   *)
(* relaxed answer by the rule of RelaxWith, the estimate leaves rec alone  *)
Resumed(call) ==
    IF call.pc = "first" THEN [rec |-> call.awaited]
    ELSE IF call.pc = "estimate" THEN call.st
    ELSE RelaxWith(call.st, call.awaited)

(* the relax step that follows the await a call is suspended at, 0 if none *)
RelaxAfter(pc) ==
    IF pc = "first" THEN 1
    ELSE IF pc = "relax1" THEN 2
    ELSE IF pc = "relax2" THEN 3
    ELSE 0

RelaxPc(n) == IF n = 1 THEN "relax1" ELSE IF n = 2 THEN "relax2" ELSE "relax3"

(* the resumed call goes on to a relax step: rec has few records *)
RelaxesNext(call) ==
    /\ call # NoCall
    /\ RelaxAfter(call.pc) # 0
    /\ HaveFew(Resumed(call).rec)

(* the resumed call goes on to the estimate: no relax step is left to run *)
(* and square_feet is a number                                             *)
EstimatesNext(call) ==
    /\ call # NoCall
    /\ call.pc # "estimate"
    /\ ~RelaxesNext(call)
    /\ call.args.square_feet # NoNum

(* resumed with few records: the handler of recommend_films is called      *)
(* again with the next relaxed arguments and its answer awaited            *)
RelaxIntake(s) ==
    LET call == inflight[s] IN
    /\ RelaxesNext(call)
    /\ \E r \in {recommendFilmsHandler(
                     films, RelaxedArgs(RecArgs(call.args), RelaxAfter(call.pc)))} :
       /\ inflight' = [Overlap(inflight) EXCEPT
                          ![s] = [call EXCEPT !.pc = RelaxPc(RelaxAfter(call.pc)),
                                              !.st = Resumed(call),
                                              !.awaited = r]]
       /\ films' = r.films
       /\ UNCHANGED <<productsData, filmsData, req, resp, passes, invoked, ui>>

(* resumed with the relax steps over and an area given: the handler of    *)
(* estimate_price is called with estArgs and its answer awaited            *)
PriceIntake(s) ==
    LET call == inflight[s] IN
    /\ EstimatesNext(call)
    /\ inflight' =
          [Overlap(inflight) EXCEPT
             ![s] = [call EXCEPT
                       !.pc = "estimate",
                       !.st = Resumed(call),
                       !.awaited =
                          IntakeEstimate(filmsData, call.revision, call.args.square_feet,
                                         OrStr(call.args.property_type, "residential"))]]
    /\ UNCHANGED <<productsData, films, filmsData, req, resp, passes, invoked, ui>>

(* resumed with nothing left to await: the panel is built and returned *)
AnswerIntake(s) ==
    LET call == inflight[s] IN
    /\ IsIdle
    /\ call # NoCall
    /\ ~RelaxesNext(call)
    /\ ~EstimatesNext(call)
    /\ \E r \in {IntakeAnswer(
                     Resumed(call),
                     IF call.pc = "estimate" THEN call.awaited
                     ELSE IntakeEstimate(filmsData, call.revision, NoNum,
                                         OrStr(call.args.property_type, "residential")),
                     call.args, RecArgs(call.args), call.revision)} :
       /\ req' = [op |-> "submit_intake_panel", args |-> call.args,
                  revision |-> call.revision, overlapped |-> call.overlapped]
       /\ passes' = r.passes
       /\ invoked' = r.invoked
       /\ Answer(r)
    /\ inflight' = [Overlap(inflight) EXCEPT ![s] = NoCall]
    /\ UNCHANGED <<productsData, films, filmsData, ui>>

IntakeToRecommendArgs(values) ==
    /\ IsIdle
    /\ req' = [op |-> "intakeToRecommendArgs", values |-> values]
    /\ resp' = [threw |-> FALSE,
                out |-> [application |-> intakeToRecommendArgs(values)]]
    /\ passes' = <<>>
    /\ invoked' = <<>>
    /\ Meanwhile
    /\ UNCHANGED <<productsData, films, filmsData, ui>>

(* a panel call in flight is resumed *)
ResumeIntake ==
    \E s \in Slots : RelaxIntake(s) \/ PriceIntake(s) \/ AnswerIntake(s)

(* Spec, SpecRecommend and SpecPricing take the calls one after another:  *)
(* a call is taken when the one before it has been answered and its       *)
(* answer delivered.  SpecInterleaved below takes them while others are in *)
(* flight.                                                                 *)
Quiet == InFlight = {} /\ IsIdle

NextRecommendFilms ==
    Quiet /\ \E input \in RecommendInputs \cup NoGoalInputs : RecommendFilms(input)

NextRejectRecommend ==
    Quiet /\ \E input \in RecommendInputs \cup NoGoalInputs : RejectRecommend(input)

NextScoreProducts == Quiet /\ \E ctx \in ScoreContexts : ScoreProducts(ctx)

NextBeginIntake ==
    Quiet /\ \E revision \in {"baseline", "sku"} :
                \/ \E args \in IntakeInputs \cup FacingOne : BeginIntake(args, revision)
                \/ \E args \in FacingArrays : BeginIntake(args, revision)

NextIntakeToRecommendArgs ==
    Quiet /\ \E app \in {"", "office"}, text \in ApplicationTexts :
                IntakeToRecommendArgs([application |-> app, application_text |-> text])

RecommendCalls ==
    \/ NextRecommendFilms
    \/ NextRejectRecommend
    \/ NextScoreProducts
    \/ NextBeginIntake
    \/ ResumeIntake
    \/ NextIntakeToRecommendArgs

NextScoreFilms == Quiet /\ \E ctx \in ScoreContexts : ScoreFilms(ctx)

NextNormalizeFilms == Quiet /\ NormalizeFilms

NextCalculatePricing ==
    Quiet /\ \E sku_list \in SkuLists, area \in Areas \cup SmallAreas, pt \in PropertyTypes :
                CalculatePricing(sku_list, area, pt)

NextEstimatePriceBySku ==
    Quiet /\ \E sku_list \in SkuLists, area \in Areas \cup SmallAreas, pt \in PropertyTypes :
                EstimatePriceBySku(sku_list, area, pt)

NextEstimatePrice ==
    Quiet /\ \E area \in Areas \cup SmallAreas, pt \in PropertyTypes :
                EstimatePrice(area, pt)

NextRejectEstimate ==
    Quiet /\ \E area \in Areas \cup SmallAreas, pt \in PropertyTypes :
                RejectEstimate(area, pt)

PricingCalls ==
    \/ NextScoreFilms
    \/ NextNormalizeFilms
    \/ NextCalculatePricing
    \/ NextEstimatePriceBySku
    \/ NextEstimatePrice
    \/ NextRejectEstimate

Next == RecommendCalls \/ PricingCalls \/ Return

Spec == Init /\ [][Next]_vars

(* the recommendation tool over every product catalog of the universe *)
NextRecommend == RecommendCalls \/ Return

SpecRecommend == InitCatalog /\ [][NextRecommend]_vars

(* the pricing tool and the library calls over every films.json document *)
NextPricing == PricingCalls \/ Return

SpecPricing == InitDocument /\ [][NextPricing]_vars

(* Calls that overlap.  The transport hands a call to its handler as soon  *)
(* as it is read, so a call is taken while panel calls are suspended at    *)
(* their awaits, and these are resumed in any order.                       *)
OverlappingIntakes ==
    { IntakeArgs("commercial", <<>>, "office", <<>>, "darker", NoNum),
      IntakeArgs("commercial", <<"heat">>, "office", <<>>, "darker", 2000000) }

OverlappingInputs ==
    { RecommendInput("commercial", <<"heat">>, "office", vlt, "mid", "interior", "high", "") :
        vlt \in {"neutral", "darker"} }

OverlappingContexts ==
    { ScoreContext("commercial", goals, "neutral", "", "") :
        goals \in {<<"heat">>, <<"privacy">>} }

OverlappingCalls ==
    \/ \E args \in OverlappingIntakes, revision \in {"baseline", "sku"} :
          BeginIntake(args, revision)
    \/ ResumeIntake
    \/ \E input \in OverlappingInputs : RecommendFilms(input)
    \/ \E ctx \in OverlappingContexts : ScoreProducts(ctx)
    \/ \E ctx \in OverlappingContexts : ScoreFilms(ctx)
    \/ CalculatePricing(<<"a", "b">>, 2000000, "commercial")
    \/ EstimatePrice(2000000, "commercial")

NextInterleaved == OverlappingCalls \/ Return

(* the default films.json and the product catalogs of the first blocks *)
InitInterleaved ==
    /\ \E nb \in {2, MaxBlocks} : productsData = BlockWindow(1, nb, MaxPerBlock)
    /\ filmsData = DefaultDocument
    /\ Loaded

SpecInterleaved == InitInterleaved /\ [][NextInterleaved]_vars

----------------------------------------------------------------------------
(* The events of the preview page.  The page loads a static sample and     *)
(* calls no tool, so the server side stays as loaded.                      *)

ServerUnchanged ==
    UNCHANGED <<productsData, films, filmsData, req, resp, inflight, passes, invoked>>

(* the updater of the Next button had it not wrapped around *)
NextIndexUnwrapped(idx, n) == idx + 1

(* (idx + 1) % cards.length *)
NextIndex(idx, n) == (idx + 1) % n

(* (idx - 1 + cards.length) % cards.length *)
PreviousIndex(idx, n) == (idx - 1 + n) % n

(* click on "Run sample recommendation"; the button is disabled while      *)
(* loading.  The timeout is set and fires later.                           *)
RunSample ==
    /\ ~ui.loading
    /\ ui' = [ui EXCEPT !.loading = TRUE, !.error = "", !.timer = TRUE,
                        !.event = "runSample"]
    /\ ServerUnchanged

(* the callback of the timeout *)
SampleLoaded ==
    /\ ui.timer
    /\ ui' = [ui EXCEPT !.cards = SAMPLE_CARDS,
                        !.panelDescription = SAMPLE_DESCRIPTION,
                        !.resultRaw = "SAMPLE_RAW",
                        !.activeIndex = 0, !.loading = FALSE, !.timer = FALSE,
                        !.event = "sampleLoaded"]
    /\ ServerUnchanged

(* the controls are rendered when there is more than one card; the card    *)
(* the updater computes is in the strip and is scrolled into view          *)
PreviousCard ==
    /\ Len(ui.cards) > 1
    /\ \E next \in {PreviousIndex(ui.activeIndex, Len(ui.cards))} :
           ui' = [ui EXCEPT !.activeIndex = next,
                            !.scrolledTo = IF next \in 0..(Len(ui.cards) - 1)
                                           THEN next ELSE ui.scrolledTo,
                            !.event = "previous"]
    /\ ServerUnchanged

NextCard ==
    /\ Len(ui.cards) > 1
    /\ \E next \in {NextIndex(ui.activeIndex, Len(ui.cards))} :
           ui' = [ui EXCEPT !.activeIndex = next,
                            !.scrolledTo = IF next \in 0..(Len(ui.cards) - 1)
                                           THEN next ELSE ui.scrolledTo,
                            !.event = "next"]
    /\ ServerUnchanged

(* onMouseEnter of card i *)
HoverCard(i) ==
    /\ i \in 0..(Len(ui.cards) - 1)
    /\ ui' = [ui EXCEPT !.activeIndex = i, !.event = "hover"]
    /\ ServerUnchanged

(* the raw JSON toggle, rendered once there is a result *)
ToggleJson ==
    /\ ui.resultRaw # ""
    /\ ui' = [ui EXCEPT !.showJson = ~ui.showJson, !.event = "toggleJson"]
    /\ ServerUnchanged

InitCarousel ==
    /\ productsData = DefaultBlocks
    /\ filmsData = DefaultDocument
    /\ Loaded

NextCarousel ==
    \/ RunSample
    \/ SampleLoaded
    \/ PreviousCard
    \/ NextCard
    \/ \E i \in 0..(Len(SAMPLE_CARDS) - 1) : HoverCard(i)
    \/ ToggleJson

(* the preview page alone *)
SpecCarousel == InitCarousel /\ [][NextCarousel]_vars

----------------------------------------------------------------------------
(* Properties of the pricing tool and the library calls, checked under     *)
(* SpecPricing                                                             *)

IsPricing == req.op = "calculatePricing"

(* the catalog calculatePricing looks the identifiers up in *)
PricingCatalog == normalizeFilmsPricing(filmsData)

InCatalog(sku) ==
    \E i \in 1..Len(PricingCatalog) :
        PricingCatalog[i].t = "record" /\ PricingCatalog[i].f.sku = sku

PricedFields == {"unit_price_low", "unit_price_high", "subtotal_low", "subtotal_high"}

(* C4: calculatePricing answers every request with exactly one line per    *)
(* requested identifier, in request order; the line of an identifier that  *)
(* is absent from the catalog carries only the identifier and an error     *)
(* field and no price field; every identifier present in the catalog is    *)
(* priced in the same call.                                                *)
C4_OneLinePerSku ==
    IsPricing =>
        /\ ~resp.threw
        /\ Len(resp.out) = Len(req.sku_list)
        /\ \A i \in 1..Len(req.sku_list) :
              /\ resp.out[i].sku = req.sku_list[i]
              /\ IF InCatalog(req.sku_list[i])
                 THEN PricedFields \subseteq DOMAIN resp.out[i]
                 ELSE DOMAIN resp.out[i] = {"sku", "error"}

IsBaseline == req.op = "estimate_price"

BaselineQuotes == resp.out.quotes

(* the non-negative amount n/d cents rounded to the nearer cent, halves    *)
(* up, in exact arithmetic                                                 *)
RoundDiv(n, d) == (2 * n + d) \div (2 * d)

(* area times unit price in hundredths of a cent, exactly: the area in     *)
(* ten-thousandths of a square foot times the price in whole dollars       *)
ExactProduct(area, unit_price) == area * (unit_price \div 100)

Distance(a, b) == IF a >= b THEN a - b ELSE b - a

NearestCent(subtotal, area, unit_price) ==
    /\ subtotal = ToFixed2(FTimes(SquareFeet(area), DoubleOf(unit_price, 100)))
    /\ Distance(100 * subtotal, ExactProduct(area, unit_price)) <= 50
    /\ ExactProduct(area, unit_price) % 100 # 50
          => subtotal = RoundDiv(ExactProduct(area, unit_price), 100)

C5_WitnessHalfUp ==
    /\ IsBaseline
    /\ req.square_feet = 100075 /\ req.property_type = "residential"
    /\ BaselineQuotes[1].subtotal_low = 14011

(* the first record of the catalog with the identifier *)
FirstWithSku(sku) ==
    PricingCatalog[CHOOSE i \in 1..Len(PricingCatalog) :
        /\ PricingCatalog[i].t = "record" /\ PricingCatalog[i].f.sku = sku
        /\ \A j \in 1..(i - 1) :
              ~(PricingCatalog[j].t = "record" /\ PricingCatalog[j].f.sku = sku)].f

(* the film's price in cents for the property type, 0 when it has none *)
BasePrice(sku, property_type) ==
    LET p == FirstWithSku(sku).typical_installed_price_per_sqft_usd[property_type]
    IN IF p = NoNum THEN 0 ELSE p

IsPricedLine(line) == "unit_price_low" \in DOMAIN line

(* the film's price times 0.85 and times 1.15, as doubles in dollars *)
LowOf(sku, property_type) ==
    FTimes(DoubleOf(BasePrice(sku, property_type), 100), DoubleOf(85, 100))

HighOf(sku, property_type) ==
    FTimes(DoubleOf(BasePrice(sku, property_type), 100), DoubleOf(115, 100))

(* C6 as first stated: on every priced line the unit prices are the film's *)
(* price minus and plus 15% and the subtotals are the unit prices reported *)
(* on that line times the area, rounded to the cent.                       *)
C6_SubtotalFromReportedUnit ==
    (IsPricing /\ ~resp.threw) =>
        \A i \in 1..Len(resp.out) :
            LET line == resp.out[i] IN
            IsPricedLine(line) =>
                /\ line.unit_price_low = ToFixed2(LowOf(line.sku, req.property_type))
                /\ line.unit_price_high = ToFixed2(HighOf(line.sku, req.property_type))
                /\ line.subtotal_low =
                      ToFixed2(FTimes(DoubleOf(line.unit_price_low, 100),
                                      SquareFeet(req.area)))
                /\ line.subtotal_high =
                      ToFixed2(FTimes(DoubleOf(line.unit_price_high, 100),
                                      SquareFeet(req.area)))

(* C6: on every priced line the unit prices are the film's price for the   *)
(* property type (0 when the film has none) times 0.85 and times 1.15,     *)
(* rounded to the cent, and the subtotals are the price times 0.85 and     *)
(* times 1.15, before rounding, times the area, rounded to the cent once;  *)
(* the products are taken in double precision and the cent is the one      *)
(* nearest the double.                                                     *)
C6_SubtotalFromExactUnit ==
    (IsPricing /\ ~resp.threw) =>
        \A i \in 1..Len(resp.out) :
            LET line == resp.out[i] IN
            IsPricedLine(line) =>
                /\ line.unit_price_low = ToFixed2(LowOf(line.sku, req.property_type))
                /\ line.unit_price_high = ToFixed2(HighOf(line.sku, req.property_type))
                /\ line.subtotal_low =
                      ToFixed2(FTimes(LowOf(line.sku, req.property_type),
                                      SquareFeet(req.area)))
                /\ line.subtotal_high =
                      ToFixed2(FTimes(HighOf(line.sku, req.property_type),
                                      SquareFeet(req.area)))

(* a priced line whose subtotal differs from reported unit times area *)
C6_Witness ==
    /\ IsPricing /\ ~resp.threw
    /\ \E i \in 1..Len(resp.out) :
          /\ IsPricedLine(resp.out[i])
          /\ resp.out[i].unit_price_low > 0
          /\ req.area % 10000 = 0
          /\ resp.out[i].subtotal_low #
                resp.out[i].unit_price_low * (req.area \div 10000)
          /\ resp.out[i].subtotal_low #
                ToFixed2(FTimes(DoubleOf(resp.out[i].unit_price_low, 100),
                                SquareFeet(req.area)))

(* a priced line whose subtotal is a cent below the product rounded in     *)
(* exact arithmetic: 14.26 * 0.85 * 5 is 60.605, and the line says 60.60   *)
C6_WitnessHalfway ==
    /\ IsPricing /\ ~resp.threw
    /\ \E i \in 1..Len(resp.out) :
          /\ IsPricedLine(resp.out[i])
          /\ req.area = 50000
          /\ resp.out[i].subtotal_low = 6060
          /\ RoundDiv(85 * BasePrice(resp.out[i].sku, req.property_type)
                          * (req.area \div 10000), 100) = 6061

TierIds == <<"baseline_value", "baseline_mid", "baseline_premium">>

(* C7: with no tier selected the baseline estimate_price returns exactly   *)
(* the three quotes baseline_value, baseline_mid, baseline_premium, each   *)
(* with subtotal_low < subtotal_high, and the commercial unit bounds of a  *)
(* tier are at least the residential bounds of the same tier.              *)
C7_ThreeTiers ==
    IsBaseline =>
        LET residential == TierQuotes(req.square_feet, "residential", "").out.quotes
        IN /\ Len(BaselineQuotes) = 3
           /\ \A i \in 1..3 :
                 /\ BaselineQuotes[i].sku = TierIds[i]
                 /\ BaselineQuotes[i].subtotal_low < BaselineQuotes[i].subtotal_high
                 /\ req.property_type = "commercial" =>
                       /\ BaselineQuotes[i].unit_price_low >= residential[i].unit_price_low
                       /\ BaselineQuotes[i].unit_price_high >= residential[i].unit_price_high

(* 200 sq ft, commercial, no tier: three quotes *)
C7_Witness ==
    /\ IsBaseline
    /\ req.square_feet = 2000000 /\ req.property_type = "commercial"
    /\ Len(BaselineQuotes) = 3
    /\ BaselineQuotes[1].unit_price_low = 1600

(* C8: for every shape of the catalog document scoreFilms and              *)
(* calculatePricing return a value and never throw, and a document that    *)
(* yields no catalog gives scoreFilms an empty result.                     *)
C8_NeverThrows ==
    /\ req.op \in {"scoreFilms", "calculatePricing"} => ~resp.threw
    /\ (req.op = "scoreFilms" /\ req.source = "films"
            /\ filmsData.t \in {"null", "scalar"}) => resp.out = <<>>

RecordKinds == {"record", "map"}

HoldsArray(doc, key) == HasKey(doc, key) /\ IsArray(Get(doc, key))

(* the array under the first of the keys, in order, that holds one *)
UnderFirstKey(doc, keys, out) ==
    \E k \in 1..Len(keys) :
        /\ HoldsArray(doc, keys[k])
        /\ \A j \in 1..(k - 1) : ~HoldsArray(doc, keys[j])
        /\ out = Get(doc, keys[k]).items

NoKeyHoldsArray(doc, keys) == \A k \in 1..Len(keys) : ~HoldsArray(doc, keys[k])

(* the resolution order with the given wrapper keys and the given kinds   *)
(* of value accepted in a flat mapping                                     *)
Resolves(doc, keys, kinds, out) ==
    CASE doc.t = "list" -> out = doc.items
      [] doc.t \in {"null", "scalar"} -> out = <<>>
      [] doc.t \in {"map", "record"} ->
            LET mapping == ObjectView(doc) IN
            IF ~NoKeyHoldsArray(mapping, keys) THEN UnderFirstKey(mapping, keys, out)
            ELSE IF mapping.vals # <<>>
                    /\ \A i \in 1..Len(mapping.vals) : mapping.vals[i].t \in kinds
                 THEN out = mapping.vals
                 ELSE out = <<>>

SevenKeys == <<"films", "items", "data", "catalog", "rows", "list", "brands">>

IsNormalize == req.op = "normalizeFilms"

(* C9: both normalizeFilms use a list as is, else the array under the      *)
(* first of films, items, data, catalog, rows, list, brands that holds     *)
(* one, else the values of a non-empty mapping whose every value is a      *)
(* record, else the empty list.                                            *)
C9_SevenKeysRecordsOnly ==
    IsNormalize =>
        /\ Resolves(filmsData, SevenKeys, RecordKinds, resp.out.scoring)
        /\ Resolves(filmsData, SevenKeys, RecordKinds, resp.out.pricing)


(* C19: normalizeFilms hands a list back as it is, the same entries in the *)
(* same order with every field, and is idempotent: normalizing the result  *)
(* of a normalization gives that result again, for every document and in   *)
(* both copies.                                                            *)
C19_ListKeptAndIdempotent ==
    IsNormalize =>
        /\ IsArray(filmsData) =>
              resp.out.scoring = filmsData.items /\ resp.out.pricing = filmsData.items
        /\ normalizeFilms(JList(resp.out.scoring)) = resp.out.scoring
        /\ normalizeFilmsPricing(JList(resp.out.pricing)) = resp.out.pricing
        /\ normalizeFilms(JList(resp.out.pricing)) = resp.out.pricing
        /\ normalizeFilmsPricing(JList(resp.out.scoring)) = resp.out.scoring

(* a wrapped catalog normalized to its list of two or more entries, one of *)
(* them not a record                                                       *)
C19_Witness ==
    /\ IsNormalize
    /\ ~IsArray(filmsData)
    /\ Len(resp.out.scoring) >= 2
    /\ \E i \in 1..Len(resp.out.scoring) : resp.out.scoring[i].t # "record"

----------------------------------------------------------------------------
(* Properties of the recommendation tool, checked under SpecRecommend *)

IsRecommendation == req.op = "recommend_films" /\ Missing(req.input) = <<>>

Recommended == resp.out.recommendations

(* C1: when every refinement field is supplied, the recommendations list   *)
(* the recommend_films handler returns holds at most 5 items.              *)
C1_AtMostFive == IsRecommendation => Len(Recommended) <= 5

(* more than 5 films were eligible and exactly 5 were returned *)
C1_Witness ==
    /\ IsRecommendation
    /\ Len(Pool(films, req.input.goals, ExpandContext(req.input))) > 5
    /\ Len(Recommended) = 5

(* the brands, after aliasing, of the films passing both filters *)
EligibleBrands(catalog, goals, ctx) ==
    {brandAlias(catalog[i].brand) : i \in Range(Pool(catalog, goals, ctx))}

(* C2: expandToProducts never returns two items of one brand (after brand  *)
(* aliasing) unless fewer than 5 distinct brands are eligible.             *)
C2_OnePerBrand ==
    IsRecommendation =>
        ((\E i, j \in 1..Len(Recommended) :
              /\ i < j
              /\ brandAlias(Recommended[i].film.brand)
                    = brandAlias(Recommended[j].film.brand))
            => Cardinality(EligibleBrands(films, req.input.goals,
                                          ExpandContext(req.input))) < 5)

IsProductScoring == req.op = "scoreFilms" /\ req.source = "products"

(* the strict score and rationale of every film of the catalog *)
StrictScores(catalog, ctx) ==
    [i \in 1..Len(catalog) |-> BaseScore(catalog[i], ctx)]

(* at least 3 scored records and a best strict score of 0.8 or more, or at *)
(* least 2 and a best strict score of 1.0 or more                          *)
StrictPassSuffices(catalog, ctx) ==
    LET strict == Seq1(StrictScores(catalog, ctx))
        BestAtLeast(u) == \E i \in 1..Len(strict) : FGeq(strict[i].score, Dbl(u))
    IN \/ (Len(strict) >= 3 /\ BestAtLeast(400))
       \/ (Len(strict) >= 2 /\ BestAtLeast(500))

BroadenedReasons ==
    { "Broadened: solar-control likely to help heat/glare",
      "Broadened: darker VLT for privacy",
      "Broadened: high UV rejection",
      "Broadened: security-oriented line" }

(* out, from position a on, lists records of the catalog not used so far,  *)
(* each with its strict score and rationale and none scoring above the one *)
(* listed before it, and no record left out scores above the last listed   *)
RECURSIVE ListsBestFirst(_, _, _, _, _)
ListsBestFirst(out, strict, a, used, last) ==
    IF a > Len(out)
    THEN \A i \in (1..Len(strict)) \ used :
            last # 0 => FGeq(strict[last].score, strict[i].score)
    ELSE \E i \in (1..Len(strict)) \ used :
            /\ out[a] = Project(strict[i])
            /\ last # 0 => FGeq(strict[last].score, strict[i].score)
            /\ ListsBestFirst(out, strict, a + 1, used \cup {i}, i)

(* out is the n highest-scored records of the strict pass, best first *)
IsStrictTop(out, catalog, ctx, n) ==
    /\ Len(out) = Min(n, Len(catalog))
    /\ ListsBestFirst(out, Seq1(StrictScores(catalog, ctx)), 1, {}, 0)

(* C3: over a catalog with records to score, the broadening pass runs if   *)
(* and only if the strict pass is insufficient; when the strict pass is    *)
(* sufficient the result is the 3 highest-scored records of the strict     *)
(* pass with their strict scores and rationale, free of Broadened reasons. *)
C3_BroadenIffStarved ==
    (IsProductScoring /\ films # <<>>) =>
        LET suffices == StrictPassSuffices(films, req.ctx) IN
        /\ Contains(passes, "strict")
        /\ Contains(passes, "broadened") <=> ~suffices
        /\ suffices =>
              /\ IsStrictTop(resp.out, films, req.ctx, 3)
              /\ \A i \in 1..Len(resp.out) :
                    Range(resp.out[i].why) \cap BroadenedReasons = {}

(* a sufficient strict pass over more than 3 films returned just 3 of them *)
C3_Witness ==
    /\ IsProductScoring
    /\ Len(films) > 3
    /\ StrictPassSuffices(films, req.ctx)
    /\ passes = <<"strict">>
    /\ Len(resp.out) = 3

(* C10: scoring is deterministic.  Whatever calls came before, scoreFilms  *)
(* and the recommend_films handler answer with the items, scores and order *)
(* that the catalog as loaded and the arguments of the call determine,     *)
(* ties on score included.                                                 *)
C10_Deterministic ==
    LET catalog == FlattenBlocks(productsData) IN
    /\ IsProductScoring =>
          /\ ~resp.threw
          /\ resp.out = scoreFilms(AsDocument(catalog), req.ctx).out
    /\ req.op = "recommend_films" =>
          /\ ~resp.threw
          /\ resp.out = recommendFilmsHandler(catalog, req.input).out

(* a scoring call answered with two records that tie on score *)
C10_Witness ==
    /\ IsProductScoring
    /\ \E i \in 1..(Len(resp.out) - 1) :
          /\ resp.out[i].score = resp.out[i + 1].score
          /\ resp.out[i].sku # resp.out[i + 1].sku

----------------------------------------------------------------------------
(* Properties of calls that overlap, checked under SpecInterleaved *)

(* the call answered last, run alone over the catalogs as loaded *)
AnswerAlone ==
    LET catalog == FlattenBlocks(productsData) IN
    CASE req.op = "submit_intake_panel" ->
           submitIntakeHandler(catalog, filmsData, req.revision, req.args)
      [] req.op = "recommend_films" -> recommendFilmsHandler(catalog, req.input)
      [] req.op = "scoreFilms" /\ req.source = "products" ->
           scoreFilms(AsDocument(catalog), req.ctx)
      [] req.op = "scoreFilms" /\ req.source = "films" -> scoreFilms(filmsData, req.ctx)
      [] req.op = "calculatePricing" ->
           calculatePricing(filmsData, req.sku_list, req.area, req.property_type)
      [] req.op = "estimate_price" ->
           estimatePriceBaseline(filmsData, req.square_feet, req.property_type, "")

AnsweredCalls ==
    {"submit_intake_panel", "recommend_films", "scoreFilms", "calculatePricing",
     "estimate_price"}

(* C11: no call changes the shared catalog, be it the product blocks, the  *)
(* flattened product catalog (its order, its records, their fields) or     *)
(* films.json, and every call, whatever calls were answered before it or   *)
(* ran between its awaits, returns what it returns when run alone over the *)
(* catalogs as loaded.                                                     *)
C11_SameAsAlone ==
    /\ [][/\ productsData' = productsData
          /\ films' = films
          /\ filmsData' = filmsData
          /\ films' = FlattenBlocks(productsData')]_vars
    /\ [](req.op \in AnsweredCalls =>
             /\ resp = [threw |-> AnswerAlone.threw, out |-> AnswerAlone.out]
             /\ ~resp.threw)

(* a panel call answered after its relax steps and its estimate, each      *)
(* awaited while other calls ran, with another panel call still suspended  *)
(* at the await of a relax step                                            *)
C11_Witness ==
    /\ req.op = "submit_intake_panel"
    /\ req.overlapped
    /\ Len(invoked) >= 3
    /\ Len(resp.out.quotes) = 3
    /\ \E s \in InFlight : inflight[s].pc \in {"relax1", "relax2", "relax3"}
    /\ films = FlattenBlocks(productsData)


(* C12: in the flattened catalog the synthesized identifier, kebab(brand) *)
(* "-" kebab(product name), is unique: no two records share a sku.        *)
C12_UniqueSku ==
    \A i, j \in 1..Len(films) : i # j => films[i].sku # films[j].sku


(* a product the catalog can name: its block has a brand name and it has  *)
(* a product name or a series                                              *)
HasUsableName(block, p) ==
    block.brand # "" /\ OrGiven(p.product_name, OrGiven(p.series, "")) # ""

RECURSIVE FlattenUsable(_)
FlattenUsable(blocks) ==
    IF blocks = <<>> THEN <<>>
    ELSE LET block == Head(blocks)
             kept == SelectSeq(block.products, LAMBDA p : HasUsableName(block, p))
         IN  [i \in 1..Len(kept) |-> FlattenProduct(block, kept[i])]
            \o FlattenUsable(Tail(blocks))

(* C13: flattening drops every product without a usable product name (or  *)
(* series) and every product of a block without a brand name; the catalog  *)
(* holds the other products only, so no record has an empty or placeholder *)
(* identifier.                                                             *)
C13_UnusableDropped ==
    /\ films = FlattenUsable(productsData)
    /\ \A i \in 1..Len(films) :
          /\ films[i].brand \notin {"", "Unknown"}
          /\ films[i].product_name \notin {"", "Unknown"}
          /\ films[i].sku \notin {"", "-", "unknown-film"}


----------------------------------------------------------------------------
(* Properties of the entry paths: the tools behind their schemas and the   *)
(* intake panel calling the handlers itself                                *)

(* C14: scoring and expansion never run with an empty goal list: on every *)
(* entry path, the recommend_films tool and submit_intake_panel alike, a   *)
(* request without goals is refused before scoreFilms or expandToProducts  *)
(* is invoked.                                                             *)
C14_GoalsNeverEmpty ==
    \A i \in 1..Len(invoked) :
        invoked[i].fn \in {"scoreFilms", "expandToProducts"} => invoked[i].goals # <<>>


(* C15: the minimum area holds on every path to pricing: no quote is       *)
(* computed for an area below 10 sq ft, be it by the estimate_price tool   *)
(* or by its handler called from submit_intake_panel.                      *)
C15_MinimumArea ==
    /\ req.op \in {"estimate_price", "estimate_price_sku", "submit_intake_panel"} =>
          \A i \in 1..Len(invoked) :
              invoked[i].fn \in {"estimatePrice", "calculatePricing"}
                  => invoked[i].square_feet >= 100000
    /\ req.op = "submit_intake_panel" /\ req.args.square_feet # NoNum
          /\ req.args.square_feet < 100000
          => resp.out.quotes = <<>>


(* the refinement fields a recommend_films request leaves out *)
AbsentFields(input) ==
    {f \in {"application", "vlt_preference", "budget_level", "install_location"} :
        input[f] = ""}
    \cup (IF input.sun_exposure = "" /\ input.orientation = "" THEN {"sun"} ELSE {})

PromptFor(field) ==
    CASE field = "application" -> "application (e.g. living_room, office)"
      [] field = "vlt_preference" -> "brightness preference (brighter/neutral/darker)"
      [] field = "budget_level" -> "budget (value/mid/premium)"
      [] field = "install_location" -> "install location (interior/exterior)"
      [] field = "sun" ->
            "sun exposure (low/medium/high) or orientation (north/east/south/west)"

(* C16: when application, vlt_preference, budget_level or install_location *)
(* is absent, or both sun_exposure and orientation are, the recommend_films *)
(* handler answers with no recommendations and a prompt naming exactly the *)
(* absent fields, and runs neither scoreFilms nor expandToProducts; when   *)
(* nothing is absent it never answers with the prompt and runs both.       *)
C16_PromptIffMissing ==
    req.op = "recommend_films" =>
        LET absent == AbsentFields(req.input) IN
        IF absent # {}
        THEN /\ resp.out.recommendations = <<>>
             /\ Range(resp.out.missing) = {PromptFor(f) : f \in absent}
             /\ Len(resp.out.missing) = Cardinality(absent)
             /\ invoked = <<>>
             /\ passes = <<>>
        ELSE /\ resp.out.missing = <<>>
             /\ resp.out.criteria
             /\ Len(invoked) = 2
             /\ invoked[1].fn = "scoreFilms"
             /\ invoked[2].fn = "expandToProducts"

(* a request over a catalog with products that lacks the brightness and    *)
(* both sun exposure and orientation, answered with the prompt for the two *)
C16_Witness ==
    /\ req.op = "recommend_films"
    /\ Len(films) >= 3
    /\ AbsentFields(req.input) = {"vlt_preference", "sun"}
    /\ Len(resp.out.missing) = 2
    /\ resp.out.recommendations = <<>>


(* C17: every path that accepts a free-text application, the text          *)
(* normalisation of submit_intake_panel and intakeToRecommendArgs, maps    *)
(* the text to a member of the closed application enum, "other" being the  *)
(* fallback: the application handed on is never absent and never outside   *)
(* the enum.                                                               *)
C17_ApplicationInEnum ==
    /\ req.op = "submit_intake_panel" /\ req.args.application_text # <<>>
          => resp.out.recArgs.application \in ApplicationEnum
    /\ req.op = "intakeToRecommendArgs" /\ req.values.application_text # <<>>
          => resp.out.application \in ApplicationEnum


(* the fields of a recommended item: the code spreads the film's fields    *)
(* into the item next to title and subtitle                                *)
ItemFields(item) == DOMAIN item.film \cup (DOMAIN item \ {"film"})

HeatReasons == {"Good for heat", "Broadened: solar-control likely to help heat/glare"}

(* C18: with every refinement field supplied, each item recommend_films    *)
(* returns carries a score and a rationale list, the items are in          *)
(* non-increasing score order, and for a heat request each solar_control   *)
(* item with IR rejection of 80% has a heat-relevant reason in its         *)
(* rationale.                                                              *)
C18_ItemsScoredAndExplained ==
    req.op = "recommend_films" /\ AbsentFields(req.input) = {} =>
        LET items == resp.out.recommendations IN
        /\ \A k \in 1..Len(items) : {"score", "why"} \subseteq ItemFields(items[k])
        /\ \A k \in 1..(Len(items) - 1) :
              FGeq(items[k].film.score, items[k + 1].film.score)
        /\ Contains(req.input.goals, "heat") =>
              \A k \in 1..Len(items) :
                  items[k].film.category = "solar_control"
                      /\ items[k].film.ir_reduction_pct = 80
                  => Range(items[k].film.why) \cap HeatReasons # {}


(* C20: every scoring rule that changes a score also appends a rationale: *)
(* in the strict pass each rule that adds to or takes from the score of a  *)
(* record (the IR, UV and low-VLT bonuses, the penalties without a         *)
(* security goal, the interior nudge and the budget bonus among them)      *)
(* appends a reason, so a record with a score other than 0 has a           *)
(* non-empty rationale.                                                    *)
C20_EveryRuleExplains ==
    IsProductScoring =>
        \A i \in 1..Len(films) :
            LET rules == StrictRules(films[i], req.ctx)
                strict == BaseScore(films[i], req.ctx)
            IN  /\ \A k \in 1..Len(rules) : rules[k].d # 0 => rules[k].why # <<>>
                /\ strict.score # Dbl(0) => strict.why # <<>>


----------------------------------------------------------------------------
(* Properties of the broadened pass and of the expansion *)

(* C21: on the broadened path scoreFilms answers with the first 5 entries  *)
(* of the re-sorted list de-duplicated by identifier: no two entries share *)
(* an identifier, the scores do not increase, and there are exactly        *)
(* min(5, number of distinct identifiers in the catalog) entries.          *)
C21_FiveDistinctAfterBroadening ==
    IsProductScoring /\ passes = <<"strict", "broadened">> =>
        /\ \A i, j \in 1..Len(resp.out) : i # j => resp.out[i].sku # resp.out[j].sku
        /\ \A i \in 1..(Len(resp.out) - 1) : resp.out[i].score >= resp.out[i + 1].score
        /\ Len(resp.out) = Min(5, Cardinality({films[i].sku : i \in 1..Len(films)}))


(* the call ran expandToProducts, and the arguments it was given *)
ExpandRan ==
    /\ req.op \in {"recommend_films", "submit_intake_panel"}
    /\ \E k \in 1..Len(invoked) : invoked[k].fn = "expandToProducts"

ExpandInput == IF req.op = "recommend_films" THEN req.input ELSE resp.out.recArgs

ExpandedItems == resp.out.recommendations

(* the record breaks none of the three context restrictions *)
ContextEligible(film, input) ==
    /\ ~(film.best_for # <<>> /\ ~Contains(film.best_for, input.property_type))
    /\ ~(film.install_location # <<>>
           /\ ~Contains(film.install_location, input.install_location))
    /\ ~(input.install_location = "exterior" /\ film.exterior_ok = "false")

(* solar_control when heat or glare is requested, or a use case that is a  *)
(* requested goal                                                          *)
GoalRelevant(film, goals) ==
    \/ film.category = "solar_control"
         /\ (Contains(goals, "heat") \/ Contains(goals, "glare"))
    \/ \E u \in Range(film.use_cases) : Contains(goals, u)

(* C22: no item returned by expandToProducts breaks the context            *)
(* eligibility (property-type list, install-location list, exterior_ok     *)
(* false for an exterior install), and every returned item is relevant to  *)
(* a requested goal.                                                       *)
C22_OnlyEligibleItems ==
    ExpandRan =>
        \A k \in 1..Len(ExpandedItems) :
            /\ ContextEligible(ExpandedItems[k].film, ExpandInput)
            /\ GoalRelevant(ExpandedItems[k].film, ExpandInput.goals)

(* the same, for the calls that request at least one goal *)
C22_EligibleWhenGoalsGiven ==
    ExpandRan /\ ExpandInput.goals # <<>> => C22_OnlyEligibleItems

(* the context half alone *)
C22_ContextAlways ==
    ExpandRan =>
        \A k \in 1..Len(ExpandedItems) :
            ContextEligible(ExpandedItems[k].film, ExpandInput)


(* the positions of the catalog that are eligible for the call *)
EligiblePositions == Range(Pool(films, ExpandInput.goals, ExpandContext(ExpandInput)))

(* the eligible positions whose tier is exactly the requested one *)
ExactTier == {i \in EligiblePositions : films[i].price_tier = ExpandInput.budget_level}

(* the candidates: the positions the ranking and the brand walk work on *)
Candidates ==
    Range(TierPreferred(films, Pool(films, ExpandInput.goals, ExpandContext(ExpandInput)),
                        ExpandInput.budget_level))

(* the distance of two tiers on the scale value = 1, mid = 2, premium = 3 *)
TierScale(t) == IF t = "value" THEN 1 ELSE IF t = "mid" THEN 2 ELSE IF t = "premium" THEN 3 ELSE 0

TierGap(i) == Abs(TierScale(films[i].price_tier) - TierScale(ExpandInput.budget_level))

(* C23: when at least 5 eligible records have exactly the requested tier,  *)
(* every returned item has that tier; otherwise every exact-tier eligible  *)
(* record is a candidate and the backfill goes by tier distance (value 1,  *)
(* mid 2, premium 3): no candidate lies farther from the requested tier    *)
(* than an eligible record that was left out.  Every returned item is a    *)
(* candidate.                                                              *)
C23_BudgetTierPreference ==
    ExpandRan =>
        /\ \A k \in 1..Len(ExpandedItems) :
               \E i \in Candidates : ExpandedItems[k].film = films[i]
        /\ Cardinality(ExactTier) >= 5 =>
               \A k \in 1..Len(ExpandedItems) :
                   ExpandedItems[k].film.price_tier = ExpandInput.budget_level
        /\ Cardinality(ExactTier) < 5 =>
               /\ ExactTier \subseteq Candidates
               /\ \A i \in Candidates, j \in EligiblePositions \ Candidates :
                      TierGap(i) <= TierGap(j)

(* fewer than 5 exact-tier records, a backfill that took a record at       *)
(* distance 1 and left one at distance 2 out, and items were returned      *)
C23_Witness ==
    /\ ExpandRan
    /\ Cardinality(ExactTier) < 5
    /\ \E i \in Candidates, j \in EligiblePositions \ Candidates :
           TierGap(i) = 1 /\ TierGap(j) = 2
    /\ Len(ExpandedItems) > 0

(* at least 5 exact-tier eligible records, and items were returned *)
C23_WitnessExact ==
    /\ ExpandRan
    /\ Cardinality(ExactTier) >= 5
    /\ Cardinality(EligiblePositions) > Cardinality(ExactTier)
    /\ Len(ExpandedItems) > 0


(* the brands of the universe in alphabetical order: "3M" is a prefix of   *)
(* "3M Window Film" and comes before it                                    *)
AlphabeticalBrands ==
    <<"3M", "3M Window Film", "Huper Optik", "LLumar", "Madico", "Solar Gard",
      "Unknown", "XPEL">>

(* the composite key of a returned item: weight descending, count of       *)
(* satisfied goal conditions descending, distance from the brightness      *)
(* target ascending, then the brand, then the product name                 *)
CompositeKey(film) ==
    << -(goalWeight(film, ExpandInput.goals, ExpandContext(ExpandInput)).u),
       -(goalWeight(film, ExpandInput.goals, ExpandContext(ExpandInput)).r),
       -whyMatchCount(film, ExpandInput.goals),
       Closeness(film, ExpandInput.vlt_preference),
       IndexOf(AlphabeticalBrands, film.brand),
       IndexOf(NameOrder, film.product_name) >>

(* C24: the items returned by expandToProducts are in composite-ranking    *)
(* order: of any two returned items the earlier one does not rank after    *)
(* the later one under the key (weight descending, count of satisfied      *)
(* goal conditions descending, distance of the transmission from the       *)
(* brightness target ascending, brand then product name alphabetical).     *)
C24_CompositeOrder ==
    ExpandRan =>
        \A k, l \in 1..Len(ExpandedItems) :
            k < l => ~LexLess(CompositeKey(ExpandedItems[l].film),
                              CompositeKey(ExpandedItems[k].film))


----------------------------------------------------------------------------
(* Properties of the transmission-based rules *)

(* the strict rules with the privacy rule as stated: the flat bonus for    *)
(* every declared transmission from 0 to 19 when privacy is a goal         *)
PrivacyBelowTwenty(film, goals) ==
    IF Contains(goals, "privacy") /\ film.visible_light_transmission # NoNum
       /\ film.visible_light_transmission < 20
    THEN Silent(100) ELSE NoRule

(* the score a record gets on the path the call took when its rules[6],    *)
(* the strict privacy rule, is replaced by the given one                   *)
ScoreWithPrivacyRule(film, ctx, privacyRule) ==
    LET strict == SumRules([score |-> Dbl(0), why |-> <<>>],
                           [StrictRules(film, ctx) EXCEPT ![6] = privacyRule])
    IN Round2((IF passes = <<"strict">> THEN strict
               ELSE SumRules(strict, BroadRules(film, ctx))).score.u)

(* C25: with privacy among the goals, every record with a declared         *)
(* transmission below 20 (any value from 0 to 19) receives the flat        *)
(* privacy bonus in the strict pass, and no record with a transmission of  *)
(* 20 or more does: every returned score is the one this rule gives.       *)
C25_PrivacyBonusBelowTwenty ==
    IsProductScoring /\ Contains(req.ctx.goals, "privacy") =>
        \A k \in 1..Len(resp.out) :
            \E i \in 1..Len(films) :
                /\ films[i].sku = resp.out[k].sku
                /\ films[i].visible_light_transmission = resp.out[k].vlt
                /\ resp.out[k].score
                     = ScoreWithPrivacyRule(films[i], req.ctx,
                                            PrivacyBelowTwenty(films[i], req.ctx.goals))

(* the same with a bonus given only to transmissions from 1 to 19 *)
C25_BonusFromOneToNineteen ==
    IsProductScoring /\ Contains(req.ctx.goals, "privacy") =>
        \A k \in 1..Len(resp.out) :
            \E i \in 1..Len(films) :
                /\ films[i].sku = resp.out[k].sku
                /\ films[i].visible_light_transmission = resp.out[k].vlt
                /\ resp.out[k].score
                     = ScoreWithPrivacyRule(films[i], req.ctx,
                           IF films[i].visible_light_transmission >= 1
                           THEN PrivacyBelowTwenty(films[i], req.ctx.goals)
                           ELSE NoRule)


----------------------------------------------------------------------------
(* The scorer's output and the expansion *)

(* what the scorer returned to the handler of the call *)
ScorerOutput ==
    scoreFilms(AsDocument(films),
               ScoreContext(req.input.property_type, req.input.goals, "", "", "")).out

(* other lists the expansion could have been handed as recs: none, the     *)
(* scorer's list reversed, and its first entry alone                       *)
OtherRecs ==
    { <<>>,
      [k \in 1..Len(ScorerOutput) |-> ScorerOutput[Len(ScorerOutput) + 1 - k]],
      Take(ScorerOutput, 1) }

(* C26: the result of expandToProducts does not depend on its recs         *)
(* argument: whatever list the scorer hands over, and whichever of the     *)
(* strict and the broadened pass produced it, recommend_films returns the  *)
(* same items.                                                             *)
C26_RecsIgnored ==
    IsRecommendation /\ ~resp.threw =>
        \A recs \in OtherRecs :
            Recommended = expandToProducts(recs, films, req.input.goals,
                                           ExpandContext(req.input))

(* the broadened pass ran, and an item was recommended that the scorer did *)
(* not return                                                              *)
C26_Witness ==
    /\ IsRecommendation /\ ~resp.threw
    /\ passes = <<"strict", "broadened">>
    /\ \E k \in 1..Len(Recommended) :
           \A j \in 1..Len(ScorerOutput) : ScorerOutput[j].sku # Recommended[k].film.sku

(* the strict pass sufficed, and an item was recommended that the scorer   *)
(* did not return                                                          *)
C26_WitnessStrict ==
    /\ IsRecommendation /\ ~resp.threw
    /\ passes = <<"strict">>
    /\ \E k \in 1..Len(Recommended) :
           \A j \in 1..Len(ScorerOutput) : ScorerOutput[j].sku # Recommended[k].film.sku


----------------------------------------------------------------------------
(* The relaxation cascade of submit_intake_panel *)

(* what the first, unrelaxed call of the recommend_films handler returned *)
FirstRecommendations ==
    recommendFilmsHandler(films, resp.out.recArgs).out.recommendations

(* C27: the relaxation cascade of submit_intake_panel never lowers the     *)
(* number of recommendations: the call ends with at least as many as its   *)
(* first, unrelaxed call of the recommend_films handler returned.          *)
C27_RelaxingNeverLoses ==
    req.op = "submit_intake_panel" =>
        Len(resp.out.recommendations) >= Len(FirstRecommendations)

(* the same for the calls whose first result has 3 items or more *)
C27_KeptWhenThreeOrMore ==
    req.op = "submit_intake_panel" /\ Len(FirstRecommendations) >= 3 =>
        resp.out.recommendations = FirstRecommendations


(* the same for the calls that request at least one goal *)
C27_WhenGoalsGiven ==
    req.op = "submit_intake_panel" /\ req.args.goals # <<>> =>
        Len(resp.out.recommendations) >= Len(FirstRecommendations)


----------------------------------------------------------------------------
(* The amounts of a priced line *)

(* C28: every priced line of calculatePricing has its low amounts strictly *)
(* below its high amounts, unit price and subtotal alike, so a film of the *)
(* catalog with no price for the requested property type never yields a    *)
(* line whose amounts are all 0.                                           *)
C28_LowBelowHigh ==
    IsPricing /\ ~resp.threw =>
        \A k \in 1..Len(resp.out) :
            IsPricedLine(resp.out[k]) =>
                /\ resp.out[k].unit_price_low < resp.out[k].unit_price_high
                /\ resp.out[k].subtotal_low < resp.out[k].subtotal_high

(* the same for the lines of the films that have a price for the           *)
(* requested property type                                                 *)
C28_LowBelowHighWhenPriced ==
    IsPricing /\ ~resp.threw =>
        \A k \in 1..Len(resp.out) :
            IsPricedLine(resp.out[k])
              /\ FindBySku(PricingCatalog, resp.out[k].sku).film
                     .typical_installed_price_per_sqft_usd[req.property_type] # NoNum
              => /\ resp.out[k].unit_price_low < resp.out[k].unit_price_high
                 /\ resp.out[k].subtotal_low < resp.out[k].subtotal_high

(* a line of a film with a price came back with low below high *)
C28_PricedLineReached ==
    /\ IsPricing /\ ~resp.threw
    /\ \E k \in 1..Len(resp.out) :
           /\ IsPricedLine(resp.out[k])
           /\ FindBySku(PricingCatalog, resp.out[k].sku).film
                  .typical_installed_price_per_sqft_usd[req.property_type] # NoNum
           /\ resp.out[k].subtotal_low < resp.out[k].subtotal_high


(* the reasons the transmission-based rules of scoreFilms give *)
TransmissionReasons ==
    { "Brighter: favors high VLT (65%+)", "Brighter: favors VLT 55\\u201364%",
      "Brighter: avoids very dark (\\u226425% VLT)", "Neutral: favors mid VLT (35\\u201355%)",
      "Darker: favors \\u226430% VLT", "Broadened: darker VLT for privacy" }

(* the score of a record when no transmission-based rule acts on it *)
ScoreWithoutTransmission(film, ctx) ==
    LET strict == SumRules([score |-> Dbl(0), why |-> <<>>],
                           [StrictRules(film, ctx) EXCEPT ![6] = NoRule, ![10] = NoRule])
    IN Round2((IF passes = <<"strict">> THEN strict
               ELSE SumRules(strict, [BroadRules(film, ctx) EXCEPT ![2] = NoRule])).score.u)

(* C29: a record with no declared transmission receives neither bonus nor  *)
(* penalty from the transmission-based rules of scoreFilms (the brightness *)
(* preference, the strict privacy rule, the broadened privacy rule): it    *)
(* carries none of their reasons and its score is the sum of the others.   *)
C29_NoTransmissionNoEffect ==
    IsProductScoring =>
        \A k \in 1..Len(resp.out) :
            resp.out[k].vlt = NoNum =>
                /\ \A r \in Range(resp.out[k].why) : r \notin TransmissionReasons
                /\ \E i \in 1..Len(films) :
                       /\ films[i].sku = resp.out[k].sku
                       /\ films[i].visible_light_transmission = NoNum
                       /\ resp.out[k].score = ScoreWithoutTransmission(films[i], req.ctx)

(* the same for the calls with no privacy goal and no darker or brighter   *)
(* preference                                                              *)
C29_HoldsWithoutDarkRules ==
    IsProductScoring /\ ~Contains(req.ctx.goals, "privacy")
                     /\ req.ctx.vlt_preference \notin {"darker", "brighter"} =>
        \A k \in 1..Len(resp.out) :
            resp.out[k].vlt = NoNum =>
                \A r \in Range(resp.out[k].why) : r \notin TransmissionReasons


----------------------------------------------------------------------------
(* Properties of the results carousel, checked under SpecCarousel *)

(* C30: after any sequence of Run sample, Previous, Next and card-hover    *)
(* events activeIndex is the index of an existing card whenever there are  *)
(* cards; Next on the last card moves to index 0, Previous on index 0 to   *)
(* the last card, and a completed Run sample leaves activeIndex at 0 and   *)
(* loading false.                                                          *)
C30_ActiveIndexInRange ==
    [][ /\ ui'.cards # <<>> => ui'.activeIndex \in 0..(Len(ui'.cards) - 1)
        /\ NextCard /\ ui.activeIndex = Len(ui.cards) - 1 => ui'.activeIndex = 0
        /\ PreviousCard /\ ui.activeIndex = 0 => ui'.activeIndex = Len(ui.cards) - 1
        /\ SampleLoaded => ui'.activeIndex = 0 /\ ~ui'.loading ]_vars

(* Next has just wrapped from the last card to the first and scrolled it   *)
(* into view, with the raw JSON shown                                      *)
C30_Witness ==
    /\ ui.cards # <<>>
    /\ ui.event = "next" /\ ui.activeIndex = 0 /\ ui.scrolledTo = 0
    /\ ui.showJson

(* Previous has just wrapped from the first card to the last *)
C30_WitnessPrevious ==
    /\ ui.event = "previous"
    /\ ui.activeIndex = Len(ui.cards) - 1

(* a second sample run completed after the last card had been active *)
C30_WitnessReset ==
    /\ ui.event = "sampleLoaded" /\ ui.scrolledTo = Len(ui.cards) - 1
    /\ ui.activeIndex = 0 /\ ~ui.loading

=============================================================================
